---- MODULE Spec2Model ----
(***************************************************************************)
(* DeployBot: the website builder of src/build_mvp_website.py, the         *)
(* pipeline of src/main.py, the GitHub helpers of src/github_utils.py and  *)
(* the EC2 deployment of src/deploy_to_ec2.py.                             *)
(*                                                                         *)
(* Each function is modelled as its own state machine:                     *)
(*   SpecRun       run_website_in_sandbox      (launch-and-heal loop)      *)
(*   SpecDefine    define_website_structure    (structure planner)         *)
(*   SpecGenerate  generate_website_in_sandbox (content generator)         *)
(*   SpecBuild     build_website, with run_website_in_sandbox inside it    *)
(*   SpecClone     clone_repository and fork_repository, followed by the   *)
(*                 push and the pull request of build_website              *)
(*   SpecSsh       wait_for_ssh                                            *)
(*   SpecDeploy    main of deploy_to_ec2.py, with the security group, the  *)
(*                 instance look-up and wait_for_ssh inside it             *)
(*   SpecDownload  download_files_from_sandbox                             *)
(* The external collaborators (completion API, sandbox commands and files, *)
(* git, GitHub, AWS, SSH) are nondeterministic: a call returns or raises.  *)
(***************************************************************************)
EXTENDS Integers, Sequences, FiniteSets, TLC

VARIABLES
    \* ---- run_website_in_sandbox
    phase,            \* which retry loop the function is in
    pc,               \* position inside the loop / the function
    public_access,    \* the parameter
    retry_count,      \* the local counter
    error_message,    \* str(e) of the except handler (id of the failed attempt)
    fixed_content,    \* value returned by regenerate_file_with_error (0 = None/"")
    process,          \* the local: handle of the last background start (0 = unbound)
    alive,            \* server processes alive in the sandbox
    nprocs,           \* handles handed out so far
    ncompl,           \* completions returned so far (names fresh contents)
    files,            \* sandbox content of requirements.txt and app.py (0 = absent)
    run_result,       \* "pending", "None", or the returned process handle record
    trace,            \* history of the external calls of this invocation
    \* ---- define_website_structure
    d_pc,             \* position in the function
    file_structures,  \* the parsed first answer
    file_descriptions,\* the list of FileDescription being built
    rankings,         \* the parsed second answer
    api_calls,        \* completion calls made so far, with their outcome
    def_result,       \* "pending", "None", or the returned manifest
    \* ---- generate_website_in_sandbox
    g_pc,             \* position in the function
    manifest,         \* the local file_descriptions: file names in manifest order
    g_idx,            \* position of the for loop in the manifest
    message_list,     \* the shared conversation history
    file_content,     \* value returned by generate_file_content (0 = None/"")
    gen_requests,     \* completion requests made by generate_file_content
    sandbox_ops,      \* mkdir and write calls made on the sandbox
    sandbox_files,    \* files present below /home/user in the sandbox
    gen_result,       \* "pending", "None", or "sandbox"
    \* ---- build_website
    b_pc,             \* the stage build_website is about to run
    repo_url_valid,   \* the parameter repo_url matches the GitHub pattern
    b_public_access,  \* the parameter public_access
    issue_number,     \* issue.number (0 = no issue yet)
    branch_name,      \* number N of feature/mvp-website-N (0 = not set)
    website_info,     \* TRUE once run_website_in_sandbox returned its dict
    b_trace,          \* the stages run so far, with their outcome
    build_result,     \* what build_website returned
    \* ---- clone_repository, fork_repository and the publishing calls after them
    c_pc,             \* position in clone_repository / the publishing sequence
    use_fork,         \* the parameter use_fork
    c_repo_url,       \* the local repo_url of clone_repository
    forked_repo,      \* the local forked_repo (None, or the fork's full name)
    gh_forks,         \* GitHub: logins that own a fork of the original repository
    fork_calls,       \* history of the fork_repository calls
    remotes,          \* remotes of the local clone: name -> URL (None = not set)
    pushed_to,        \* repository that received the push (None = nothing pushed)
    pr_requests,      \* create_pull requests sent, with their head
    c_calls,          \* publishing runs started so far
    clone_result,     \* "pending", "True", "False" or "raise"
    \* ---- wait_for_ssh
    w_pc,             \* position in the function
    retries,          \* the parameter retries
    delay,            \* the parameter delay
    ssh_i,            \* the loop variable i
    ssh_trace,        \* connect and sleep calls made so far
    ssh_result,       \* "pending", "True" or "False"
    \* ---- main of deploy_to_ec2.py, with get_or_create_security_group and
    \*      get_or_launch_instance
    m_pc,             \* position in main and the functions it calls
    aws_credentials,  \* both AWS_ACCESS_KEY_ID and AWS_SECRET_ACCESS_KEY are set
    sg_exists,        \* AWS: a security group named SECURITY_GROUP_NAME exists
    sg_rules,         \* AWS: the inbound rules of that group
    response_rules,   \* the local response['SecurityGroups'][0]['IpPermissions']
    sg_ops,           \* history of the security group API calls
    sg_result,        \* "pending", "returned" or "raise"
    ec2_instances,    \* AWS: the instances of the account
    launches,         \* history of create_instances calls
    m_trace,          \* the steps of main run so far, with their outcome
    main_result,      \* "pending", "returned" or "raise"
    \* ---- download_files_from_sandbox
    dl_pc,            \* position: "call", "loop" or "done"
    remote_tree,      \* the entries below /home/user in the sandbox
    local_files,      \* files on the local disk: path -> bytes
    local_dirs,       \* directories on the local disk
    dl_stack,         \* the active calls: remote_dir, local_dir, entries left
    dl_reads,         \* history of sandbox.files.read calls, with their outcome
    dl_result         \* "pending", "returned" or "raise"

runVars == <<phase, pc, public_access, retry_count, error_message, fixed_content,
             process, alive, nprocs, ncompl, files, run_result, trace>>

defVars == <<d_pc, file_structures, file_descriptions, rankings, api_calls, def_result>>

genVars == <<g_pc, manifest, g_idx, message_list, file_content, gen_requests,
             sandbox_ops, sandbox_files, gen_result>>

buildVars == <<b_pc, repo_url_valid, b_public_access, issue_number, branch_name,
               website_info, b_trace, build_result>>

cloneVars == <<c_pc, use_fork, c_repo_url, forked_repo, gh_forks, fork_calls,
               remotes, pushed_to, pr_requests, c_calls, clone_result>>

sshVars == <<w_pc, retries, delay, ssh_i, ssh_trace, ssh_result>>

ec2Vars == <<m_pc, aws_credentials, sg_exists, sg_rules, response_rules, sg_ops,
             sg_result, ec2_instances, launches, m_trace, main_result>>

dlVars == <<dl_pc, remote_tree, local_files, local_dirs, dl_stack, dl_reads, dl_result>>

vars == <<runVars, defVars, genVars, buildVars, cloneVars, sshVars, ec2Vars, dlVars>>

\* Everything outside run_website_in_sandbox.
nonRunVars == <<defVars, genVars, buildVars, cloneVars, sshVars, ec2Vars, dlVars>>
\* Everything outside define_website_structure.
nonDefVars == <<runVars, genVars, buildVars, cloneVars, sshVars, ec2Vars, dlVars>>
\* Everything outside generate_website_in_sandbox.
nonGenVars == <<runVars, defVars, buildVars, cloneVars, sshVars, ec2Vars, dlVars>>
\* Everything outside build_website.
nonBuildVars == <<runVars, defVars, genVars, cloneVars, sshVars, ec2Vars, dlVars>>
\* Everything outside clone_repository and the publishing calls.
nonCloneVars == <<runVars, defVars, genVars, buildVars, sshVars, ec2Vars, dlVars>>
\* Everything outside wait_for_ssh.
nonSshVars == <<runVars, defVars, genVars, buildVars, cloneVars, ec2Vars, dlVars>>
\* Everything outside main of deploy_to_ec2.py.
nonEc2Vars == <<runVars, defVars, genVars, buildVars, cloneVars, sshVars, dlVars>>
\* Everything outside download_files_from_sandbox.
nonDlVars == <<runVars, defVars, genVars, buildVars, cloneVars, sshVars, ec2Vars>>

--------------------------------------------------------------------------
(* Pure helpers *)

\* All sequences over S of length at most n.
SeqUpTo(S, n) == UNION {[1..k -> S] : k \in 0..n}

--------------------------------------------------------------------------
(* run_website_in_sandbox *)

max_retries == 3

RunFiles == {"requirements.txt", "app.py"}
ServerPhases == {"gunicorn", "flask"}

\* One external step of the function, as it is recorded in the history.
Ev(op, ph, ok, file, err, val, proc) ==
    [op |-> op, phase |-> ph, ok |-> ok, file |-> file, err |-> err,
     val |-> val, proc |-> proc]

\* The file the except handler of a phase regenerates.
ImplicatedFileMut(ph) == "app.py"
ImplicatedFile(ph) == IF ph = "install" THEN "requirements.txt" ELSE "app.py"

\* The branch taken at `if public_access:`.
ServerModeMut(pa) == "gunicorn"
ServerMode(pa) == IF pa THEN "gunicorn" ELSE "flask"

\* `if retry_count >= max_retries: raise`
ExhaustedMut(rc) == rc > max_retries
Exhausted(rc) == rc >= max_retries

\* `while retry_count < max_retries`
LoopCondition(rc) == rc < max_retries

\* Where control goes when the loop of phase ph is left without a raise.
AfterLoop(ph) == IF ph = "install" THEN <<ServerMode(public_access), "attempt">>
                 ELSE <<"finish", "get_host">>

\* Back at the loop head with counter rc: run the body again, or leave the loop.
LoopHead(ph, rc) == IF LoopCondition(rc) THEN <<ph, "attempt">> ELSE AfterLoop(ph)

\* The outer `except Exception`: check_sandbox_logs (which never raises), return None.
ReturnNone ==
    /\ pc' = "done"
    /\ phase' = "finish"
    /\ run_result' = [kind |-> "None", process |-> 0]

RunInit ==
    /\ phase = "install"
    /\ pc = "attempt"
    /\ public_access \in BOOLEAN
    /\ retry_count = 0
    /\ error_message = 0
    /\ fixed_content = 0
    /\ process = 0
    /\ alive = {}
    /\ nprocs = 0
    /\ ncompl = 1
    /\ files \in [RunFiles -> {0, 1}]
    /\ run_result = [kind |-> "pending", process |-> 0]
    /\ trace = <<>>

\* (variant: the handler forgets to count the failure)
HandleFailureMut(ev) ==
    /\ trace' = Append(trace, ev)
    /\ error_message' = ev.err
    /\ retry_count' = retry_count
    /\ IF Exhausted(retry_count + 1)
       THEN ReturnNone
       ELSE /\ pc' = "regenerate"
            /\ UNCHANGED <<phase, run_result>>

\* The except handler of a retry loop after a failed attempt whose event is ev.
HandleFailure(ev) ==
    /\ trace' = Append(trace, ev)
    /\ error_message' = ev.err
    /\ retry_count' = retry_count + 1
    /\ IF Exhausted(retry_count + 1)
       THEN ReturnNone
       ELSE /\ pc' = "regenerate"
            /\ UNCHANGED <<phase, run_result>>

\* (variant: the counter is carried over into the server loop)
InstallOkMut ==
    /\ phase = "install" /\ pc = "attempt"
    /\ trace' = Append(trace, Ev("attempt", "install", TRUE, "requirements.txt", 0,
                                 files["requirements.txt"], 0))
    /\ phase' = AfterLoop("install")[1]
    /\ pc' = AfterLoop("install")[2]
    /\ UNCHANGED <<public_access, retry_count, error_message, fixed_content, process,
                   alive, nprocs, ncompl, files, run_result>>
    /\ UNCHANGED nonRunVars

\* pip install -r requirements.txt returns: break, then enter the server loop.
InstallOk ==
    /\ phase = "install" /\ pc = "attempt"
    /\ trace' = Append(trace, Ev("attempt", "install", TRUE, "requirements.txt", 0,
                                 files["requirements.txt"], 0))
    /\ phase' = AfterLoop("install")[1]
    /\ pc' = AfterLoop("install")[2]
    /\ retry_count' = 0
    /\ UNCHANGED <<public_access, error_message, fixed_content, process, alive,
                   nprocs, ncompl, files, run_result>>
    /\ UNCHANGED nonRunVars

\* pip install -r requirements.txt raises.
InstallFail ==
    /\ phase = "install" /\ pc = "attempt"
    /\ HandleFailure(Ev("attempt", "install", FALSE, "requirements.txt",
                        Len(trace) + 1, files["requirements.txt"], 0))
    /\ UNCHANGED <<public_access, fixed_content, process, alive, nprocs, ncompl, files>>
    /\ UNCHANGED nonRunVars

\* A start attempt that raises before the background command was started
\* (pip install gunicorn, touch, or the background run itself).
StartFailBefore ==
    /\ phase \in ServerPhases /\ pc = "attempt"
    /\ HandleFailure(Ev("attempt", phase, FALSE, "app.py", Len(trace) + 1,
                        files["app.py"], 0))
    /\ UNCHANGED <<public_access, fixed_content, process, alive, nprocs, ncompl, files>>
    /\ UNCHANGED nonRunVars

\* The background command was started (process is bound to its handle) and a
\* later command of the try block raises: sleep, ps, or in gunicorn mode the
\* unguarded `cat server.log`.  The started process may be running or not.
StartFailAfter ==
    /\ phase \in ServerPhases /\ pc = "attempt"
    /\ \E up \in BOOLEAN :
          /\ nprocs' = nprocs + 1
          /\ process' = nprocs + 1
          /\ alive' = IF up THEN alive \cup {nprocs + 1} ELSE alive
          /\ HandleFailure(Ev("attempt", phase, FALSE, "app.py", Len(trace) + 1,
                              files["app.py"], nprocs + 1))
    /\ UNCHANGED <<public_access, fixed_content, ncompl, files>>
    /\ UNCHANGED nonRunVars

\* The process list printed by `ps aux | grep ...` shows a server command line.
LivenessCheck(procs) == procs # {}

\* The background command was started and every command up to the liveness
\* check returned; the check decides between break and raise.
StartChecked ==
    /\ phase \in ServerPhases /\ pc = "attempt"
    /\ \E up \in BOOLEAN :
          /\ nprocs' = nprocs + 1
          /\ process' = nprocs + 1
          /\ alive' = IF up THEN alive \cup {nprocs + 1} ELSE alive
          /\ IF LivenessCheck(alive')
             THEN /\ trace' = Append(trace, Ev("attempt", phase, TRUE, "app.py", 0,
                                               files["app.py"], nprocs + 1))
                  /\ phase' = AfterLoop(phase)[1]
                  /\ pc' = AfterLoop(phase)[2]
                  /\ UNCHANGED <<retry_count, error_message, run_result>>
             ELSE HandleFailure(Ev("attempt", phase, FALSE, "app.py", Len(trace) + 1,
                                   files["app.py"], nprocs + 1))
    /\ UNCHANGED <<public_access, fixed_content, ncompl, files>>
    /\ UNCHANGED nonRunVars

\* regenerate_file_with_error(file_desc, error_message, sandbox): one completion
\* call; any exception inside it is caught and None is returned.
Regenerate ==
    /\ pc = "regenerate"
    /\ \E got \in BOOLEAN :
          /\ fixed_content' = IF got THEN ncompl + 1 ELSE 0
          /\ ncompl' = IF got THEN ncompl + 1 ELSE ncompl
          /\ trace' = Append(trace, Ev("regen", phase, got, ImplicatedFile(phase),
                                       error_message, fixed_content', 0))
          /\ IF got
             THEN pc' = "write" /\ phase' = phase
             ELSE /\ phase' = LoopHead(phase, retry_count)[1]
                  /\ pc' = LoopHead(phase, retry_count)[2]
    /\ UNCHANGED <<public_access, retry_count, error_message, process, alive, nprocs,
                   files, run_result>>
    /\ UNCHANGED nonRunVars

\* (variant: the regenerated content is dropped instead of written)
WriteFixedOkMut ==
    /\ pc = "write"
    /\ trace' = Append(trace, Ev("write", phase, TRUE, ImplicatedFile(phase), 0,
                                 fixed_content, 0))
    /\ phase' = LoopHead(phase, retry_count)[1]
    /\ pc' = LoopHead(phase, retry_count)[2]
    /\ UNCHANGED <<public_access, retry_count, error_message, fixed_content, process,
                   alive, nprocs, ncompl, files, run_result>>
    /\ UNCHANGED nonRunVars

\* `if fixed_content: sandbox.files.write(...)` returns.
WriteFixedOk ==
    /\ pc = "write"
    /\ files' = [files EXCEPT ![ImplicatedFile(phase)] = fixed_content]
    /\ trace' = Append(trace, Ev("write", phase, TRUE, ImplicatedFile(phase), 0,
                                 fixed_content, 0))
    /\ phase' = LoopHead(phase, retry_count)[1]
    /\ pc' = LoopHead(phase, retry_count)[2]
    /\ UNCHANGED <<public_access, retry_count, error_message, fixed_content, process,
                   alive, nprocs, ncompl, run_result>>
    /\ UNCHANGED nonRunVars

\* sandbox.files.write raises inside the except handler: the outer handler returns None.
WriteFixedFail ==
    /\ pc = "write"
    /\ trace' = Append(trace, Ev("write", phase, FALSE, ImplicatedFile(phase), 0,
                                 fixed_content, 0))
    /\ ReturnNone
    /\ UNCHANGED <<public_access, retry_count, error_message, fixed_content, process,
                   alive, nprocs, ncompl, files>>
    /\ UNCHANGED nonRunVars

\* sandbox.get_host(port) returns; the log dump is guarded; the dict is returned.
ReturnResult ==
    /\ phase = "finish" /\ pc = "get_host"
    /\ trace' = Append(trace, Ev("get_host", "finish", TRUE, "", 0, 0, process))
    /\ run_result' = [kind |-> "result", process |-> process]
    /\ pc' = "done"
    /\ UNCHANGED <<phase, public_access, retry_count, error_message, fixed_content,
                   process, alive, nprocs, ncompl, files>>
    /\ UNCHANGED nonRunVars

\* sandbox.get_host(port) raises.
GetHostFail ==
    /\ phase = "finish" /\ pc = "get_host"
    /\ trace' = Append(trace, Ev("get_host", "finish", FALSE, "", 0, 0, process))
    /\ ReturnNone
    /\ UNCHANGED <<public_access, retry_count, error_message, fixed_content, process,
                   alive, nprocs, ncompl, files>>
    /\ UNCHANGED nonRunVars

NextRun ==
    \/ InstallOk
    \/ InstallFail
    \/ StartFailBefore
    \/ StartFailAfter
    \/ StartChecked
    \/ Regenerate
    \/ WriteFixedOk
    \/ WriteFixedFail
    \/ ReturnResult
    \/ GetHostFail

\* run_website_in_sandbox is not running.
RunIdle ==
    /\ phase = "idle" /\ pc = "idle"
    /\ public_access = FALSE
    /\ retry_count = 0 /\ error_message = 0 /\ fixed_content = 0
    /\ process = 0 /\ alive = {} /\ nprocs = 0 /\ ncompl = 0
    /\ files = [f \in RunFiles |-> 0]
    /\ run_result = [kind |-> "pending", process |-> 0]
    /\ trace = <<>>

\* define_website_structure is not running.
DefIdle ==
    /\ d_pc = "idle"
    /\ file_structures = <<>> /\ file_descriptions = <<>> /\ rankings = <<>>
    /\ api_calls = <<>>
    /\ def_result = [kind |-> "pending", manifest |-> <<>>]

\* generate_website_in_sandbox is not running.
GenIdle ==
    /\ g_pc = "idle"
    /\ manifest = <<>> /\ g_idx = 0 /\ message_list = <<>> /\ file_content = 0
    /\ gen_requests = <<>> /\ sandbox_ops = <<>> /\ sandbox_files = {}
    /\ gen_result = "pending"

\* build_website is not running.
BuildIdle ==
    /\ b_pc = "idle"
    /\ repo_url_valid = FALSE /\ b_public_access = FALSE
    /\ issue_number = 0 /\ branch_name = 0
    /\ website_info = FALSE
    /\ b_trace = <<>>
    /\ build_result = [kind |-> "pending", success |-> FALSE, message |-> "", urls |-> {}]

\* Nothing is being cloned or published.
CloneIdle ==
    /\ c_pc = "idle"
    /\ use_fork = FALSE
    /\ c_repo_url = <<>> /\ forked_repo = <<>>
    /\ gh_forks = {} /\ fork_calls = <<>>
    /\ remotes = [origin |-> <<>>, upstream |-> <<>>]
    /\ pushed_to = <<>> /\ pr_requests = <<>>
    /\ c_calls = 0
    /\ clone_result = "pending"

\* wait_for_ssh is not running.
SshIdle ==
    /\ w_pc = "idle"
    /\ retries = 0 /\ delay = 0 /\ ssh_i = 0
    /\ ssh_trace = <<>>
    /\ ssh_result = "pending"

\* The EC2 deployment is not running.
Ec2Idle ==
    /\ m_pc = "idle"
    /\ aws_credentials = FALSE
    /\ sg_exists = FALSE /\ sg_rules = {} /\ response_rules = {}
    /\ sg_ops = <<>> /\ sg_result = "pending"
    /\ ec2_instances = {} /\ launches = <<>>
    /\ m_trace = <<>>
    /\ main_result = "pending"

\* download_files_from_sandbox is not running.
DlIdle ==
    /\ dl_pc = "idle"
    /\ remote_tree = {} /\ local_files = {} /\ local_dirs = {}
    /\ dl_stack = <<>> /\ dl_reads = <<>>
    /\ dl_result = "pending"

InitRun == RunInit /\ DefIdle /\ GenIdle /\ BuildIdle /\ CloneIdle /\ SshIdle /\ Ec2Idle /\ DlIdle

SpecRun == InitRun /\ [][NextRun]_vars

--------------------------------------------------------------------------
(* Properties of run_website_in_sandbox, stated over the history *)

AttemptsIn(phs) == {i \in 1..Len(trace) : trace[i].op = "attempt" /\ trace[i].phase \in phs}
FailedIn(phs) == {i \in AttemptsIn(phs) : ~trace[i].ok}
RegensIn(phs) == {i \in 1..Len(trace) : trace[i].op = "regen" /\ trace[i].phase \in phs}
WritesIn(phs) == {i \in 1..Len(trace) : trace[i].op = "write" /\ trace[i].phase \in phs}
AllPhases == {"install"} \cup ServerPhases
SetMax(S) == CHOOSE x \in S : \A y \in S : y <= x

\* C1: in one invocation the install phase makes at most 3 attempts and the
\* server-start phase makes at most 3 attempts, hence at most 6 in total; each
\* phase makes at most 2 regeneration calls; the counter counts the failed
\* attempts of the current phase only (it restarts from 0 in the server phase).
C1_RetryBudget ==
    /\ Cardinality(AttemptsIn({"install"})) <= 3
    /\ Cardinality(AttemptsIn(ServerPhases)) <= 3
    /\ Cardinality(AttemptsIn(AllPhases)) <= 6
    /\ Cardinality(RegensIn({"install"})) <= 2
    /\ Cardinality(RegensIn(ServerPhases)) <= 2
    /\ phase = "install" => retry_count = Cardinality(FailedIn({"install"}))
    /\ phase \in ServerPhases => retry_count = Cardinality(FailedIn(ServerPhases))

\* Both budgets are used up: three installs, three starts, two regenerations each.
C1_Witness ==
    /\ Cardinality(AttemptsIn({"install"})) = 3
    /\ Cardinality(AttemptsIn(ServerPhases)) = 3
    /\ Cardinality(RegensIn({"install"})) = 2
    /\ Cardinality(RegensIn(ServerPhases)) = 2

\* C2: a regeneration (and the write that follows it) after a failed install is
\* for requirements.txt, after a failed server start for app.py, in either mode;
\* the error passed to the regeneration is the error of the attempt that failed
\* immediately before it; the other file of the sandbox is not touched.
C2_ImplicatedFile ==
    /\ \A i \in RegensIn(AllPhases) \cup WritesIn(AllPhases) :
          trace[i].file = (IF trace[i].phase = "install" THEN "requirements.txt"
                           ELSE "app.py")
    /\ \A i \in RegensIn(AllPhases) :
          /\ i > 1
          /\ trace[i-1].op = "attempt" /\ ~trace[i-1].ok
          /\ trace[i-1].phase = trace[i].phase
          /\ trace[i].err = trace[i-1].err
          /\ trace[i].err = i - 1
    /\ \A f \in RunFiles :
          files[f] \in {0, 1} \cup {trace[i].val : i \in {j \in WritesIn(AllPhases) :
                                                     trace[j].ok /\ trace[j].file = f}}
    /\ \A i \in WritesIn({"install"}), j \in WritesIn(ServerPhases) :
          trace[i].val # trace[j].val

\* A second failed install and a second failed start were each followed by a regeneration.
C2_Witness ==
    /\ \E i \in RegensIn({"install"}) : \E j \in FailedIn({"install"}) : j < i - 1
    /\ \E i \in RegensIn(ServerPhases) : \E j \in FailedIn(ServerPhases) : j < i - 1
    /\ files["requirements.txt"] > 1
    /\ files["app.py"] > 1

\* Number of failed attempts of the phase of event i up to and including i.
FailedUpTo(i) == Cardinality({j \in FailedIn(IF trace[i].phase = "install"
                                             THEN {"install"} ELSE ServerPhases) : j <= i})

\* C3: a failed attempt that leaves budget is followed at once by exactly one
\* regeneration call; when that call returned content the content is written
\* over the file and the next attempt of the phase finds it there; when it
\* returned nothing no write is made and the next attempt finds the file as the
\* failed attempt did; the third failed attempt of a phase is followed by nothing.
C3_RegenerateBetweenAttempts ==
    \A i \in FailedIn(AllPhases) :
       IF FailedUpTo(i) >= 3
       THEN i = Len(trace)
       ELSE /\ i < Len(trace) =>
                 /\ trace[i+1].op = "regen"
                 /\ trace[i+1].ok = (trace[i+1].val # 0)
                 /\ i + 1 < Len(trace) =>
                       IF trace[i+1].ok
                       THEN /\ trace[i+2].op = "write"
                            /\ trace[i+2].val = trace[i+1].val
                            /\ trace[i+2].file = trace[i+1].file
                            /\ trace[i+2].ok /\ i + 2 < Len(trace) =>
                                  /\ trace[i+3].op = "attempt"
                                  /\ trace[i+3].phase = trace[i].phase
                                  /\ trace[i+3].val = trace[i+1].val
                            /\ ~trace[i+2].ok => i + 2 = Len(trace)
                       ELSE /\ trace[i+2].op = "attempt"
                            /\ trace[i+2].phase = trace[i].phase
                            /\ trace[i+2].val = trace[i].val
            /\ i = Len(trace) => pc = "regenerate"
            /\ (i + 1 = Len(trace) /\ trace[i+1].ok) => pc = "write"
            /\ (i + 1 = Len(trace) /\ ~trace[i+1].ok) => pc = "attempt"

\* Both cases happened in one phase: a regeneration that returned nothing and one
\* that returned content, each followed by the next attempt.
C3_Witness ==
    \E i, j \in FailedIn(ServerPhases) :
       /\ i + 2 <= Len(trace) /\ ~trace[i+1].ok /\ trace[i+2].op = "attempt"
       /\ j + 3 <= Len(trace) /\ trace[j+1].ok /\ trace[j+3].op = "attempt"
       /\ Cardinality(FailedIn(ServerPhases)) = 3

\* C4: every server-start attempt of an invocation is a gunicorn start when
\* public_access is true and a Flask development-server start when it is false;
\* the two kinds never occur in the same invocation.
C4_ModesExclusive ==
    /\ \A i \in AttemptsIn(ServerPhases) : (trace[i].phase = "gunicorn") <=> public_access
    /\ \A i \in AttemptsIn(ServerPhases) : (trace[i].phase = "flask") <=> ~public_access
    /\ AttemptsIn({"gunicorn"}) = {} \/ AttemptsIn({"flask"}) = {}
    /\ phase \in ServerPhases => (phase = "gunicorn") <=> public_access

\* Three Flask development-server attempts were made with public_access false.
C4_Witness ==
    /\ ~public_access
    /\ Cardinality(AttemptsIn({"flask"})) = 3

\* C5: a result is returned only after an install attempt succeeded and a later
\* server-start attempt passed the liveness check, and the returned handle is
\* the one that attempt started; every server-start attempt comes after a
\* successful install; three failed installs are followed by no start attempt.
C5_ResultOnlyAfterInstallAndStart ==
    /\ run_result.kind = "result" =>
          \E i \in AttemptsIn({"install"}) : \E j \in AttemptsIn(ServerPhases) :
             /\ trace[i].ok /\ trace[j].ok /\ i < j
             /\ j = SetMax(AttemptsIn(AllPhases))
             /\ trace[j].proc # 0
             /\ run_result.process = trace[j].proc
    /\ \A j \in AttemptsIn(ServerPhases) :
          \E i \in AttemptsIn({"install"}) : trace[i].ok /\ i < j
    /\ phase \in ServerPhases => \E i \in AttemptsIn({"install"}) : trace[i].ok
    /\ Cardinality(FailedIn({"install"})) = 3 => AttemptsIn(ServerPhases) = {}

\* A result was returned after two failed starts whose processes were started too.
C5_Witness ==
    /\ run_result.kind = "result"
    /\ Cardinality(FailedIn(ServerPhases)) = 2
    /\ run_result.process = 3
    /\ Cardinality(FailedIn({"install"})) = 2

--------------------------------------------------------------------------
(* define_website_structure *)

\* File names are paths, kept as their sequence of components.
MaxFiles == 2      \* longest file list of the first answer
MaxRanks == 2      \* longest list of the second answer

FileNames == {<<"app.py">>, <<"requirements.txt">>, <<"templates", "index.html">>}

\* Importance values a ranking answer may carry.
RankValues == {1, 2, 1000}

\* Optional[int]: <<>> is None, <<r>> is the rank r.
None == <<>>

\* FileDescription(file_name=..., description=...): importance defaults to None.
\* (The description plays no part in the control flow and is left out.)
FileDescription(name) == [file_name |-> name, importance |-> None]

\* The first answer as parsed: entries with file_name and description.
FileLists == SeqUpTo(FileNames, MaxFiles)
\* The second answer as parsed: items with file_name and an integer importance.
RankLists == SeqUpTo([file_name : FileNames, importance : RankValues], MaxRanks)

essential_files == << <<"app.py">>, <<"requirements.txt">> >>

\* `if not any(file.file_name == essential_file ...): file_descriptions.append(...)`
EnsureOneMut(fds, essential_file) == fds
EnsureOne(fds, essential_file) ==
    IF \E i \in 1..Len(fds) : fds[i].file_name = essential_file
    THEN fds
    ELSE Append(fds, FileDescription(essential_file))

\* `for essential_file in essential_files: ...`
EnsureEssential(fds) == EnsureOne(EnsureOne(fds, essential_files[1]), essential_files[2])

\* rank_map = {item["file_name"]: item["importance"] for item in rankings}:
\* a later item for the same name replaces an earlier one.
RankMapKeys(rk) == {rk[i].file_name : i \in 1..Len(rk)}
RankMapGet(rk, name) ==
    rk[CHOOSE i \in 1..Len(rk) :
          /\ rk[i].file_name = name
          /\ \A j \in 1..Len(rk) : rk[j].file_name = name => j <= i].importance

\* `if file.file_name in rank_map: file.importance = rank_map[file.file_name]`
UpdateImportance(fds, rk) ==
    [i \in 1..Len(fds) |->
        IF fds[i].file_name \in RankMapKeys(rk)
        THEN [fds[i] EXCEPT !.importance = <<RankMapGet(rk, fds[i].file_name)>>]
        ELSE fds[i]]

\* key=lambda x: x.importance if x.importance is not None else 999
UnrankedKey == 999
SortKey(f) == IF f.importance = None THEN UnrankedKey ELSE f.importance[1]

\* list.sort is stable: an element goes after every element whose key is not greater.
RECURSIVE InsertByKey(_, _)
InsertByKey(sorted, f) ==
    IF sorted = <<>> THEN <<f>>
    ELSE IF SortKey(sorted[Len(sorted)]) <= SortKey(f) THEN Append(sorted, f)
    ELSE Append(InsertByKey(SubSeq(sorted, 1, Len(sorted) - 1), f), sorted[Len(sorted)])

RECURSIVE SortByImportance(_)
SortByImportance(fds) ==
    IF fds = <<>> THEN <<>>
    ELSE InsertByKey(SortByImportance(SubSeq(fds, 1, Len(fds) - 1)), fds[Len(fds)])

ApiCall(call, outcome) == [call |-> call, outcome |-> outcome]

\* `except Exception as e: ... return None`
DefReturnNone ==
    /\ d_pc' = "done"
    /\ def_result' = [kind |-> "None", manifest |-> <<>>]

DefInit ==
    /\ d_pc = "structure_call"
    /\ file_structures = <<>>
    /\ file_descriptions = <<>>
    /\ rankings = <<>>
    /\ api_calls = <<>>
    /\ def_result = [kind |-> "pending", manifest |-> <<>>]

\* The first completion call raises.
StructureApiError ==
    /\ d_pc = "structure_call"
    /\ api_calls' = Append(api_calls, ApiCall("structure", "api_error"))
    /\ DefReturnNone
    /\ UNCHANGED <<file_structures, file_descriptions, rankings>>
    /\ UNCHANGED nonDefVars

\* (variant: an unparsable first answer is treated as an empty list)
StructureParseErrorMut ==
    /\ d_pc = "structure_call"
    /\ api_calls' = Append(api_calls, ApiCall("structure", "parse_error"))
    /\ file_descriptions' = EnsureEssential(<<>>)
    /\ d_pc' = "ranking_call"
    /\ UNCHANGED <<file_structures, rankings, def_result>>
    /\ UNCHANGED nonDefVars

\* The first answer is not JSON, or an entry is no valid FileDescription.
StructureParseError ==
    /\ d_pc = "structure_call"
    /\ api_calls' = Append(api_calls, ApiCall("structure", "parse_error"))
    /\ DefReturnNone
    /\ UNCHANGED <<file_structures, file_descriptions, rankings>>
    /\ UNCHANGED nonDefVars

\* The first answer parses: build the descriptions and enforce the essential files.
StructureAnswer ==
    /\ d_pc = "structure_call"
    /\ \E fs \in FileLists :
          /\ file_structures' = fs
          /\ file_descriptions' =
                EnsureEssential([i \in 1..Len(fs) |-> FileDescription(fs[i])])
    /\ api_calls' = Append(api_calls, ApiCall("structure", "ok"))
    /\ d_pc' = "ranking_call"
    /\ UNCHANGED <<rankings, def_result>>
    /\ UNCHANGED nonDefVars

\* The second completion call raises.
RankingApiError ==
    /\ d_pc = "ranking_call"
    /\ api_calls' = Append(api_calls, ApiCall("ranking", "api_error"))
    /\ DefReturnNone
    /\ UNCHANGED <<file_structures, file_descriptions, rankings>>
    /\ UNCHANGED nonDefVars

\* The second answer is not JSON, or not a list of items with the two keys.
RankingParseError ==
    /\ d_pc = "ranking_call"
    /\ api_calls' = Append(api_calls, ApiCall("ranking", "parse_error"))
    /\ DefReturnNone
    /\ UNCHANGED <<file_structures, file_descriptions, rankings>>
    /\ UNCHANGED nonDefVars

\* The second answer parses: set the importances, sort, return the list.
RankingAnswer ==
    /\ d_pc = "ranking_call"
    /\ \E rk \in RankLists :
          /\ rankings' = rk
          /\ file_descriptions' = SortByImportance(UpdateImportance(file_descriptions, rk))
    /\ api_calls' = Append(api_calls, ApiCall("ranking", "ok"))
    /\ d_pc' = "done"
    /\ def_result' = [kind |-> "manifest", manifest |-> file_descriptions']
    /\ UNCHANGED file_structures
    /\ UNCHANGED nonDefVars

NextDefine ==
    \/ StructureApiError
    \/ StructureParseError
    \/ StructureAnswer
    \/ RankingApiError
    \/ RankingParseError
    \/ RankingAnswer

InitDefine == DefInit /\ RunIdle /\ GenIdle /\ BuildIdle /\ CloneIdle /\ SshIdle /\ Ec2Idle /\ DlIdle

SpecDefine == InitDefine /\ [][NextDefine]_vars

--------------------------------------------------------------------------
(* Properties of define_website_structure *)

NamedIn(name, seq) == Cardinality({i \in 1..Len(seq) : seq[i].file_name = name})
OccursIn(name, seq) == Cardinality({i \in 1..Len(seq) : seq[i] = name})

\* C6: every returned manifest has an entry named app.py and one named
\* requirements.txt, whatever file list the first answer held; each of the two
\* occurs as often as in the answer when it was there and once when it was not,
\* and no other name is added or lost.
C6_EssentialFilesPresent ==
    def_result.kind = "manifest" =>
       /\ \A n \in {<<"app.py">>, <<"requirements.txt">>} :
             /\ NamedIn(n, def_result.manifest) >= 1
             /\ NamedIn(n, def_result.manifest) =
                   (IF OccursIn(n, file_structures) = 0 THEN 1
                    ELSE OccursIn(n, file_structures))
       /\ \A n \in FileNames \ {<<"app.py">>, <<"requirements.txt">>} :
             NamedIn(n, def_result.manifest) = OccursIn(n, file_structures)

\* A manifest was returned for an answer that named neither essential file.
C6_Witness ==
    /\ def_result.kind = "manifest"
    /\ Len(file_structures) = 1
    /\ OccursIn(<<"app.py">>, file_structures) = 0
    /\ OccursIn(<<"requirements.txt">>, file_structures) = 0
    /\ Len(def_result.manifest) = 3

\* C7: the completion API is called for the file list first and, only after that
\* answer was obtained and parsed, for the ranking; a manifest is returned
\* exactly when both calls and both parsings succeeded (two calls in all), and
\* any failure ends the function at once with None and no manifest.
C7_TwoCallsOrNone ==
    /\ Len(api_calls) <= 2
    /\ Len(api_calls) >= 1 => api_calls[1].call = "structure"
    /\ Len(api_calls) = 2 => api_calls[2].call = "ranking" /\ api_calls[1].outcome = "ok"
    /\ def_result.kind = "manifest" <=>
          (Len(api_calls) = 2 /\ \A i \in 1..2 : api_calls[i].outcome = "ok")
    /\ (\E i \in 1..Len(api_calls) : api_calls[i].outcome # "ok") =>
          /\ def_result.kind = "None"
          /\ def_result.manifest = <<>>
          /\ d_pc = "done"
          /\ api_calls[Len(api_calls)].outcome # "ok"
    /\ def_result.kind = "None" =>
          \E i \in 1..Len(api_calls) : api_calls[i].outcome # "ok"

\* The file list was obtained and the ranking answer then failed to parse.
C7_Witness ==
    /\ Len(api_calls) = 2
    /\ api_calls[2].outcome = "parse_error"
    /\ file_structures # <<>>
    /\ def_result.kind = "None"

Ranked(name) == name \in RankMapKeys(rankings)

\* C8: the returned manifest is in non-decreasing order of rank, and every file
\* that got no rank from the ranking answer comes after every ranked file.
C8_SortedUnrankedLast ==
    def_result.kind = "manifest" =>
       LET m == def_result.manifest IN
       \A i, j \in 1..Len(m) :
          /\ (i < j /\ Ranked(m[i].file_name) /\ Ranked(m[j].file_name)) =>
                m[i].importance[1] <= m[j].importance[1]
          /\ (Ranked(m[i].file_name) /\ ~Ranked(m[j].file_name)) => i < j

--------------------------------------------------------------------------
(* generate_website_in_sandbox and generate_file_content *)

MaxManifest == 4   \* longest manifest define_website_structure hands over

\* What define_website_structure can return: any list of files that names both
\* essential files (C6); their importance is not read here.
Manifests == {m \in SeqUpTo(FileNames, MaxManifest) :
                 \A e \in {<<"app.py">>, <<"requirements.txt">>} :
                    \E i \in 1..Len(m) : m[i] = e}

\* os.path.dirname(file_name)
Dirname(name) == SubSeq(name, 1, Len(name) - 1)

\* f"/home/user/{...}"
SandboxPath(rel) == <<"home", "user">> \o rel

Msg(role, kind, file, content) ==
    [role |-> role, kind |-> kind, file |-> file, content |-> content]

\* message_list as built before the loop: system prompt, project structure, ack.
InitialMessages ==
    << Msg("system", "system", <<>>, 0),
       Msg("user", "structure", <<>>, 0),
       Msg("assistant", "ack", <<>>, 0) >>

\* generate_file_content: message_list.append({"role": "user", "content": user_prompt})
WithPrompt(ml, name) == Append(ml, Msg("user", "write_file", name, 0))

\* The two appends that record a generated file in the history.
WithGeneratedMut(ml, name, content) == ml
WithGenerated(ml, name, content) ==
    Append(Append(ml, Msg("user", "confirm", name, 0)),
           Msg("assistant", "content", name, content))

Request(idx, name, messages, content) ==
    [idx |-> idx, file_name |-> name, messages |-> messages, content |-> content]

SandboxOp(op, idx, path, content, ok) ==
    [op |-> op, idx |-> idx, path |-> path, content |-> content, ok |-> ok]

\* sandbox.files.write(path, content) puts content at path, replacing what was there.
FilesAfterWrite(fs, path, content) ==
    {f \in fs : f.path # path} \cup {[path |-> path, content |-> content]}

GenInit ==
    /\ g_pc = "define"
    /\ manifest = <<>>
    /\ g_idx = 0
    /\ message_list = <<>>
    /\ file_content = 0
    /\ gen_requests = <<>>
    /\ sandbox_ops = <<>>
    /\ sandbox_files = {}
    /\ gen_result = "pending"

\* The for loop moves to the entry after idx, or ends and the sandbox is returned.
NextEntry(idx) ==
    IF idx + 1 <= Len(manifest)
    THEN /\ g_idx' = idx + 1
         /\ g_pc' = "generate"
         /\ UNCHANGED gen_result
    ELSE /\ g_idx' = idx + 1
         /\ g_pc' = "done"
         /\ gen_result' = "sandbox"

\* define_website_structure returned None.
GenDefineNone ==
    /\ g_pc = "define"
    /\ g_pc' = "done"
    /\ gen_result' = "None"
    /\ UNCHANGED <<manifest, g_idx, message_list, file_content, gen_requests,
                   sandbox_ops, sandbox_files>>
    /\ UNCHANGED nonGenVars

\* The manifest was obtained and Sandbox(...) raises: the outer handler returns None.
GenSandboxError ==
    /\ g_pc = "define"
    /\ \E m \in Manifests : manifest' = m
    /\ g_pc' = "done"
    /\ gen_result' = "None"
    /\ UNCHANGED <<g_idx, message_list, file_content, gen_requests, sandbox_ops,
                   sandbox_files>>
    /\ UNCHANGED nonGenVars

\* The manifest was obtained, the sandbox created, the history initialised.
GenStart ==
    /\ g_pc = "define"
    /\ \E m \in Manifests : manifest' = m
    /\ message_list' = InitialMessages
    /\ g_idx' = 1
    /\ g_pc' = "generate"
    /\ UNCHANGED <<file_content, gen_requests, sandbox_ops, sandbox_files, gen_result>>
    /\ UNCHANGED nonGenVars

\* generate_file_content returns None (the completion call raised) or empty
\* content: the prompt stays in the history and the file is skipped.
GenerateFail ==
    /\ g_pc = "generate"
    /\ message_list' = WithPrompt(message_list, manifest[g_idx])
    /\ gen_requests' = Append(gen_requests,
                              Request(g_idx, manifest[g_idx], message_list', 0))
    /\ file_content' = 0
    /\ NextEntry(g_idx)
    /\ UNCHANGED <<manifest, sandbox_ops, sandbox_files>>
    /\ UNCHANGED nonGenVars

\* generate_file_content returns content: it is added to the history; then the
\* directory is created when the name has one, else the file is written.
GenerateOk ==
    /\ g_pc = "generate"
    /\ file_content' = g_idx
    /\ gen_requests' = Append(gen_requests,
                              Request(g_idx, manifest[g_idx],
                                      WithPrompt(message_list, manifest[g_idx]), g_idx))
    /\ message_list' = WithGenerated(WithPrompt(message_list, manifest[g_idx]),
                                     manifest[g_idx], g_idx)
    /\ g_pc' = IF Dirname(manifest[g_idx]) # <<>> THEN "mkdir" ELSE "write"
    /\ UNCHANGED <<manifest, g_idx, sandbox_ops, sandbox_files, gen_result>>
    /\ UNCHANGED nonGenVars

\* mkdir -p /home/user/<dir_path> returns.
MkdirOk ==
    /\ g_pc = "mkdir"
    /\ sandbox_ops' = Append(sandbox_ops,
                             SandboxOp("mkdir", g_idx,
                                       SandboxPath(Dirname(manifest[g_idx])), 0, TRUE))
    /\ g_pc' = "write"
    /\ UNCHANGED <<manifest, g_idx, message_list, file_content, gen_requests,
                   sandbox_files, gen_result>>
    /\ UNCHANGED nonGenVars

\* (variant: the failed mkdir is logged and the write goes ahead)
MkdirFailMut ==
    /\ g_pc = "mkdir"
    /\ sandbox_ops' = Append(sandbox_ops,
                             SandboxOp("mkdir", g_idx,
                                       SandboxPath(Dirname(manifest[g_idx])), 0, FALSE))
    /\ g_pc' = "write"
    /\ UNCHANGED <<manifest, g_idx, message_list, file_content, gen_requests,
                   sandbox_files, gen_result>>
    /\ UNCHANGED nonGenVars

\* mkdir raises: `continue`.
MkdirFail ==
    /\ g_pc = "mkdir"
    /\ sandbox_ops' = Append(sandbox_ops,
                             SandboxOp("mkdir", g_idx,
                                       SandboxPath(Dirname(manifest[g_idx])), 0, FALSE))
    /\ NextEntry(g_idx)
    /\ UNCHANGED <<manifest, message_list, file_content, gen_requests, sandbox_files>>
    /\ UNCHANGED nonGenVars

\* sandbox.files.write(sandbox_path, file_content) returns.
WriteOk ==
    /\ g_pc = "write"
    /\ sandbox_ops' = Append(sandbox_ops,
                             SandboxOp("write", g_idx, SandboxPath(manifest[g_idx]),
                                       file_content, TRUE))
    /\ sandbox_files' = FilesAfterWrite(sandbox_files, SandboxPath(manifest[g_idx]),
                                        file_content)
    /\ NextEntry(g_idx)
    /\ UNCHANGED <<manifest, message_list, file_content, gen_requests>>
    /\ UNCHANGED nonGenVars

\* (variant: a failed write ends the function through the outer handler)
WriteFailMut ==
    /\ g_pc = "write"
    /\ sandbox_ops' = Append(sandbox_ops,
                             SandboxOp("write", g_idx, SandboxPath(manifest[g_idx]),
                                       file_content, FALSE))
    /\ g_pc' = "done"
    /\ gen_result' = "None"
    /\ UNCHANGED <<manifest, g_idx, message_list, file_content, gen_requests, sandbox_files>>
    /\ UNCHANGED nonGenVars

\* sandbox.files.write raises: logged, the loop goes on.
WriteFail ==
    /\ g_pc = "write"
    /\ sandbox_ops' = Append(sandbox_ops,
                             SandboxOp("write", g_idx, SandboxPath(manifest[g_idx]),
                                       file_content, FALSE))
    /\ NextEntry(g_idx)
    /\ UNCHANGED <<manifest, message_list, file_content, gen_requests, sandbox_files>>
    /\ UNCHANGED nonGenVars

NextGenerate ==
    \/ GenDefineNone
    \/ GenSandboxError
    \/ GenStart
    \/ GenerateFail
    \/ GenerateOk
    \/ MkdirOk
    \/ MkdirFail
    \/ WriteOk
    \/ WriteFail

InitGenerate == GenInit /\ RunIdle /\ DefIdle /\ BuildIdle /\ CloneIdle /\ SshIdle /\ Ec2Idle /\ DlIdle

SpecGenerate == InitGenerate /\ [][NextGenerate]_vars

--------------------------------------------------------------------------
(* Properties of generate_website_in_sandbox *)

IsPrefix(a, b) == Len(a) <= Len(b) /\ \A i \in 1..Len(a) : a[i] = b[i]

\* Entries of the manifest the loop has finished with.
Processed == IF g_pc \in {"generate", "mkdir", "write"} THEN 1..(g_idx - 1)
             ELSE IF gen_result = "sandbox" THEN 1..Len(manifest) ELSE {}

\* C9: the k-th completion request is for the k-th manifest entry, one request
\* per entry and none besides; each request carries the shared history (a
\* prefix of the one list that keeps growing) ending in the prompt for its file,
\* and that history holds the content of every earlier entry that was generated.
C9_OneCallPerEntryWithHistory ==
    /\ \A k \in 1..Len(gen_requests) :
          /\ gen_requests[k].idx = k
          /\ gen_requests[k].file_name = manifest[k]
          /\ IsPrefix(gen_requests[k].messages, message_list)
          /\ IsPrefix(InitialMessages, gen_requests[k].messages)
          /\ LET ms == gen_requests[k].messages IN
             /\ ms[Len(ms)] = Msg("user", "write_file", manifest[k], 0)
             /\ \A j \in 1..(k - 1) :
                   gen_requests[j].content # 0 =>
                      \E x \in 1..Len(ms) :
                         ms[x] = Msg("assistant", "content", manifest[j],
                                     gen_requests[j].content)
    /\ g_pc = "generate" => Len(gen_requests) = g_idx - 1
    /\ g_pc \in {"mkdir", "write"} => Len(gen_requests) = g_idx
    /\ gen_result = "sandbox" => Len(gen_requests) = Len(manifest)
    /\ gen_result = "None" => gen_requests = <<>>

\* Three entries were requested in order, the second failed, the first was generated.
C9_Witness ==
    /\ gen_result = "sandbox"
    /\ Len(gen_requests) = 3
    /\ gen_requests[1].content # 0
    /\ gen_requests[2].content = 0
    /\ gen_requests[3].content # 0

OpsOf(k, op) == {i \in 1..Len(sandbox_ops) : sandbox_ops[i].idx = k /\ sandbox_ops[i].op = op}

\* C10: every write is to /home/user/<file_name> of an entry whose content was
\* generated and carries that content; an entry whose content was generated gets
\* one write attempt, preceded by a successful mkdir of /home/user/<dir> when its
\* name has a directory part, and gets no write attempt when that mkdir failed;
\* an entry without content gets neither.
C10_WriteAfterMkdir ==
    /\ \A i \in 1..Len(sandbox_ops) :
          LET o == sandbox_ops[i]  name == manifest[o.idx] IN
          /\ o.idx \in 1..Len(gen_requests)
          /\ gen_requests[o.idx].content # 0
          /\ o.op = "write" =>
                /\ o.path = <<"home", "user">> \o name
                /\ o.content = gen_requests[o.idx].content
                /\ Len(name) > 1 =>
                      \E j \in 1..(i - 1) :
                         /\ sandbox_ops[j].op = "mkdir" /\ sandbox_ops[j].idx = o.idx
                         /\ sandbox_ops[j].ok
          /\ o.op = "mkdir" =>
                /\ Len(name) > 1
                /\ o.path = <<"home", "user">> \o SubSeq(name, 1, Len(name) - 1)
    /\ \A k \in Processed :
          IF gen_requests[k].content = 0
          THEN OpsOf(k, "mkdir") = {} /\ OpsOf(k, "write") = {}
          ELSE IF Len(manifest[k]) > 1
          THEN /\ Cardinality(OpsOf(k, "mkdir")) = 1
               /\ \A i \in OpsOf(k, "mkdir") :
                     Cardinality(OpsOf(k, "write")) = (IF sandbox_ops[i].ok THEN 1 ELSE 0)
          ELSE /\ OpsOf(k, "mkdir") = {}
               /\ Cardinality(OpsOf(k, "write")) = 1
    /\ \A f \in sandbox_files :
          \E i \in 1..Len(sandbox_ops) :
             /\ sandbox_ops[i].op = "write" /\ sandbox_ops[i].ok
             /\ sandbox_ops[i].path = f.path /\ sandbox_ops[i].content = f.content

\* A file with a directory part was written after its directory was created.
C10_Witness ==
    /\ gen_result = "sandbox"
    /\ \E i \in 1..Len(sandbox_ops) :
          /\ sandbox_ops[i].op = "write" /\ sandbox_ops[i].ok
          /\ sandbox_ops[i].path = <<"home", "user", "templates", "index.html">>
          /\ i > 1 /\ sandbox_ops[i-1].op = "mkdir"
          /\ sandbox_ops[i-1].path = <<"home", "user", "templates">>
    /\ [path |-> <<"home", "user", "app.py">>, content |-> 1] \in sandbox_files

--------------------------------------------------------------------------
(* build_website (src/main.py) *)

MaxIssue == 2      \* largest issue number the repository hands out

\* The stages in the order the code runs them.
StageOrder == <<"parse_repo_url", "get_repository", "create_issue",
                "generate_website_in_sandbox", "run_website_in_sandbox",
                "clone_repository", "create_branch", "download_files_from_sandbox",
                "commit_and_push_changes", "create_pull_request", "cleanup">>

StageIndex(stage) == CHOOSE i \in 1..Len(StageOrder) : StageOrder[i] = stage

\* The statement that follows a stage that succeeded.
StageAfterMut(stage) ==
    IF stage = "create_branch" THEN "commit_and_push_changes"
    ELSE IF stage = "commit_and_push_changes" THEN "download_files_from_sandbox"
    ELSE IF stage = "download_files_from_sandbox" THEN "create_pull_request"
    ELSE StageOrder[StageIndex(stage) + 1]
StageAfter(stage) == StageOrder[StageIndex(stage) + 1]

\* Outcome of a stage: "ok", "falsy" (it returned None or False), "raise".
Stage(stage, outcome) == [stage |-> stage, outcome |-> outcome]

Result(success, message, urls) ==
    [kind |-> "returned", success |-> success, message |-> message, urls |-> urls]

\* `except Exception as e: return {"success": False, "message": f"Error: ..."}`
OuterExceptMut ==
    /\ b_pc' = "done"
    /\ build_result' = [kind |-> "raised", success |-> FALSE, message |-> "", urls |-> {}]
OuterExcept ==
    /\ b_pc' = "done"
    /\ build_result' = Result(FALSE, "Error", {})

\* `return {"success": False, "message": message}`
ReturnFailure(message) ==
    /\ b_pc' = "done"
    /\ build_result' = Result(FALSE, message, {})

\* The stage succeeded: go on to the next statement.
Proceed(stage) ==
    /\ b_trace' = Append(b_trace, Stage(stage, "ok"))
    /\ b_pc' = StageAfter(stage)
    /\ UNCHANGED build_result

\* The stage raised: the outer handler returns.
Raised(stage) ==
    /\ b_trace' = Append(b_trace, Stage(stage, "raise"))
    /\ OuterExcept

\* A stage before the server was started returned None: return the failure.
FailedEarly(stage, message) ==
    /\ b_trace' = Append(b_trace, Stage(stage, "falsy"))
    /\ ReturnFailure(message)

\* A stage after the server was started returned None or False:
\* stop_website_server(website_info), whose process.kill() may raise, then return.
FailedLate(stage, message) ==
    \E killed \in BOOLEAN :
       IF killed
       THEN /\ b_trace' = b_trace \o <<Stage(stage, "falsy"),
                                       Stage("stop_website_server", "ok")>>
            /\ alive' = alive \ {run_result.process}
            /\ ReturnFailure(message)
       ELSE /\ b_trace' = b_trace \o <<Stage(stage, "falsy"),
                                       Stage("stop_website_server", "raise")>>
            /\ UNCHANGED alive
            /\ OuterExcept

BuildInit ==
    /\ b_pc = "parse_repo_url"
    /\ repo_url_valid \in BOOLEAN
    /\ b_public_access \in BOOLEAN
    /\ issue_number = 0
    /\ branch_name = 0
    /\ website_info = FALSE
    /\ b_trace = <<>>
    /\ build_result = [kind |-> "pending", success |-> FALSE, message |-> "", urls |-> {}]

unchangedInputs == <<repo_url_valid, b_public_access>>

runVarsExceptAlive == <<phase, pc, public_access, retry_count, error_message,
                        fixed_content, process, nprocs, ncompl, files, run_result, trace>>

\* parse_repo_url: the URL matches, or ValueError.
ParseRepoUrl ==
    /\ b_pc = "parse_repo_url"
    /\ IF repo_url_valid THEN Proceed("parse_repo_url") ELSE Raised("parse_repo_url")
    /\ UNCHANGED <<unchangedInputs, issue_number, branch_name, website_info>>
    /\ UNCHANGED nonBuildVars

GetRepositoryOk ==
    /\ b_pc = "get_repository"
    /\ Proceed("get_repository")
    /\ UNCHANGED <<unchangedInputs, issue_number, branch_name, website_info>>
    /\ UNCHANGED nonBuildVars

\* github_client.get_repo raises (it is not guarded in get_repository).
GetRepositoryRaise ==
    /\ b_pc = "get_repository"
    /\ Raised("get_repository")
    /\ UNCHANGED <<unchangedInputs, issue_number, branch_name, website_info>>
    /\ UNCHANGED nonBuildVars

\* create_issue returns the issue; branch_name is built from its number.
CreateIssueOk ==
    /\ b_pc = "create_issue"
    /\ \E n \in 1..MaxIssue : issue_number' = n /\ branch_name' = n
    /\ Proceed("create_issue")
    /\ UNCHANGED <<unchangedInputs, website_info>>
    /\ UNCHANGED nonBuildVars

\* (variant: the missing issue is not checked)
CreateIssueNoneMut ==
    /\ b_pc = "create_issue"
    /\ b_trace' = Append(b_trace, Stage("create_issue", "falsy"))
    /\ b_pc' = StageAfter("create_issue")
    /\ UNCHANGED <<unchangedInputs, issue_number, branch_name, website_info,
                   build_result>>
    /\ UNCHANGED nonBuildVars

\* create_issue caught a GithubException and returned None.
CreateIssueNone ==
    /\ b_pc = "create_issue"
    /\ FailedEarly("create_issue", "Failed to create issue")
    /\ UNCHANGED <<unchangedInputs, issue_number, branch_name, website_info>>
    /\ UNCHANGED nonBuildVars

\* create_issue raised something that is no GithubException.
CreateIssueRaise ==
    /\ b_pc = "create_issue"
    /\ Raised("create_issue")
    /\ UNCHANGED <<unchangedInputs, issue_number, branch_name, website_info>>
    /\ UNCHANGED nonBuildVars

\* generate_website_in_sandbox returned a sandbox.
GenerateWebsiteOk ==
    /\ b_pc = "generate_website_in_sandbox"
    /\ Proceed("generate_website_in_sandbox")
    /\ UNCHANGED <<unchangedInputs, issue_number, branch_name, website_info>>
    /\ UNCHANGED nonBuildVars

\* generate_website_in_sandbox returned None (it catches every exception).
GenerateWebsiteNone ==
    /\ b_pc = "generate_website_in_sandbox"
    /\ FailedEarly("generate_website_in_sandbox", "Failed to generate website")
    /\ UNCHANGED <<unchangedInputs, issue_number, branch_name, website_info>>
    /\ UNCHANGED nonBuildVars

\* run_website_in_sandbox(sandbox, public_access=public_access) is entered; the
\* sandbox holds what generate_website_in_sandbox managed to write.
RunWebsiteCall ==
    /\ b_pc = "run_website_in_sandbox"
    /\ phase' = "install"
    /\ pc' = "attempt"
    /\ public_access' = b_public_access
    /\ retry_count' = 0
    /\ ncompl' = 1
    /\ files' \in [RunFiles -> {0, 1}]
    /\ b_pc' = "running"
    /\ UNCHANGED <<error_message, fixed_content, process, alive, nprocs, run_result, trace>>
    /\ UNCHANGED <<unchangedInputs, issue_number, branch_name, website_info, b_trace,
                   build_result>>
    /\ UNCHANGED <<defVars, genVars, cloneVars, sshVars, ec2Vars, dlVars>>

\* run_website_in_sandbox returned its dict.
RunWebsiteOk ==
    /\ b_pc = "running" /\ pc = "done"
    /\ run_result.kind = "result"
    /\ website_info' = TRUE
    /\ Proceed("run_website_in_sandbox")
    /\ UNCHANGED <<unchangedInputs, issue_number, branch_name>>
    /\ UNCHANGED nonBuildVars

\* run_website_in_sandbox returned None (it catches every exception).
RunWebsiteNone ==
    /\ b_pc = "running" /\ pc = "done"
    /\ run_result.kind = "None"
    /\ FailedEarly("run_website_in_sandbox", "Failed to run website")
    /\ UNCHANGED <<unchangedInputs, issue_number, branch_name, website_info>>
    /\ UNCHANGED nonBuildVars

LateStages == {"clone_repository", "create_branch", "commit_and_push_changes",
               "create_pull_request"}

FailureMessage(stage) ==
    IF stage = "clone_repository" THEN "Failed to clone repository"
    ELSE IF stage = "create_branch" THEN "Failed to create branch"
    ELSE IF stage = "commit_and_push_changes" THEN "Failed to commit and push changes"
    ELSE "Failed to create pull request"

\* clone_repository, create_branch, commit_and_push_changes returned True,
\* create_pull_request returned the pull request.
LateStageOk ==
    /\ b_pc \in LateStages
    /\ Proceed(b_pc)
    /\ UNCHANGED <<unchangedInputs, issue_number, branch_name, website_info>>
    /\ UNCHANGED nonBuildVars

\* (variant: a missing pull request is not checked)
LateStageFalsyMut ==
    /\ b_pc \in LateStages
    /\ IF b_pc = "create_pull_request"
       THEN /\ b_trace' = Append(b_trace, Stage(b_pc, "falsy"))
            /\ b_pc' = StageAfter(b_pc)
            /\ UNCHANGED <<alive, build_result>>
       ELSE FailedLate(b_pc, FailureMessage(b_pc))
    /\ UNCHANGED <<unchangedInputs, issue_number, branch_name, website_info>>
    /\ UNCHANGED <<runVarsExceptAlive, defVars, genVars, cloneVars, sshVars, ec2Vars,
                   dlVars>>

\* They caught their own exception (CalledProcessError, GithubException) and
\* returned False or None: the server is stopped and the failure returned.
LateStageFalsy ==
    /\ b_pc \in LateStages
    /\ FailedLate(b_pc, FailureMessage(b_pc))
    /\ UNCHANGED <<unchangedInputs, issue_number, branch_name, website_info>>
    /\ UNCHANGED <<runVarsExceptAlive, defVars, genVars, cloneVars, sshVars, ec2Vars,
                   dlVars>>

\* They raised an exception they do not catch (ValueError or GithubException in
\* clone_repository, FileNotFoundError of subprocess.run, ...).
LateStageRaise ==
    /\ b_pc \in LateStages
    /\ Raised(b_pc)
    /\ UNCHANGED <<unchangedInputs, issue_number, branch_name, website_info>>
    /\ UNCHANGED nonBuildVars

\* download_files_from_sandbox returned (files that could not be read were skipped).
DownloadOk ==
    /\ b_pc = "download_files_from_sandbox"
    /\ Proceed("download_files_from_sandbox")
    /\ UNCHANGED <<unchangedInputs, issue_number, branch_name, website_info>>
    /\ UNCHANGED nonBuildVars

\* download_files_from_sandbox raised (sandbox.files.list or os.makedirs).
DownloadRaise ==
    /\ b_pc = "download_files_from_sandbox"
    /\ Raised("download_files_from_sandbox")
    /\ UNCHANGED <<unchangedInputs, issue_number, branch_name, website_info>>
    /\ UNCHANGED nonBuildVars

\* The with block is left, the temporary directory removed, the success returned.
ReturnSuccess ==
    /\ b_pc = "cleanup"
    /\ b_trace' = Append(b_trace, Stage("cleanup", "ok"))
    /\ b_pc' = "done"
    /\ build_result' = Result(TRUE, "Successfully created MVP website",
                              {"issue_url", "pr_url", "website_url"})
    /\ UNCHANGED <<unchangedInputs, issue_number, branch_name, website_info>>
    /\ UNCHANGED nonBuildVars

\* Removing the temporary directory raises.
CleanupRaise ==
    /\ b_pc = "cleanup"
    /\ Raised("cleanup")
    /\ UNCHANGED <<unchangedInputs, issue_number, branch_name, website_info>>
    /\ UNCHANGED nonBuildVars

NextBuild ==
    \/ ParseRepoUrl
    \/ GetRepositoryOk
    \/ GetRepositoryRaise
    \/ CreateIssueOk
    \/ CreateIssueNone
    \/ CreateIssueRaise
    \/ GenerateWebsiteOk
    \/ GenerateWebsiteNone
    \/ RunWebsiteCall
    \/ NextRun
    \/ RunWebsiteOk
    \/ RunWebsiteNone
    \/ LateStageOk
    \/ LateStageFalsy
    \/ LateStageRaise
    \/ DownloadOk
    \/ DownloadRaise
    \/ ReturnSuccess
    \/ CleanupRaise

InitBuild == BuildInit /\ RunIdle /\ DefIdle /\ GenIdle /\ CloneIdle /\ SshIdle /\ Ec2Idle /\ DlIdle

SpecBuild == InitBuild /\ [][NextBuild]_vars

--------------------------------------------------------------------------
(* Properties of build_website *)

StagePositions(stage) == {i \in 1..Len(b_trace) : b_trace[i].stage = stage}
StageOk(stage) == \E i \in StagePositions(stage) : b_trace[i].outcome = "ok"
StageRan(stage) == StagePositions(stage) # {}
Returned == build_result.kind = "returned"

\* C11: the publishing steps run in the order clone, create branch, download of
\* the sandbox files, commit and push, pull request, each at most once and each
\* only directly after the step before it succeeded (the clone after the server
\* was run); so no pull request without a successful commit and push, and no
\* commit before the download returned.
C11_PublishingOrder ==
    LET publishing == <<"run_website_in_sandbox", "clone_repository", "create_branch",
                        "download_files_from_sandbox", "commit_and_push_changes",
                        "create_pull_request">> IN
    /\ \A k \in 2..6 : \A i \in StagePositions(publishing[k]) :
          /\ i > 1
          /\ b_trace[i-1] = [stage |-> publishing[k-1], outcome |-> "ok"]
    /\ \A k \in 2..6 : Cardinality(StagePositions(publishing[k])) <= 1
    /\ StageRan("create_pull_request") => StageOk("commit_and_push_changes")
    /\ StageRan("commit_and_push_changes") => StageOk("download_files_from_sandbox")

\* The pull request was opened after the four steps before it.
C11_Witness ==
    /\ StageOk("create_pull_request")
    /\ Len(b_trace) = 10

\* C12: a result with success true is returned only when the issue was created,
\* the site generated, the server run, the repository cloned, the branch
\* created, the changes pushed and the pull request opened, and it carries the
\* issue URL, the pull-request URL and the website URL; every other returned
\* result has success false and no URL.
C12_SuccessOnlyWhenAllStagesOk ==
    /\ (Returned /\ build_result.success) =>
          /\ \A st \in {"create_issue", "generate_website_in_sandbox",
                        "run_website_in_sandbox", "clone_repository", "create_branch",
                        "commit_and_push_changes", "create_pull_request"} : StageOk(st)
          /\ \A i \in 1..Len(b_trace) : b_trace[i].outcome = "ok"
          /\ run_result.kind = "result"
          /\ issue_number # 0
          /\ build_result.urls = {"issue_url", "pr_url", "website_url"}
    /\ (Returned /\ ~build_result.success) =>
          /\ build_result.urls = {}
          /\ \E i \in 1..Len(b_trace) : b_trace[i].outcome # "ok"
    /\ b_pc = "done" => build_result.kind # "pending"

\* The success result was returned.
C12_Witness ==
    /\ Returned /\ build_result.success
    /\ build_result.urls = {"issue_url", "pr_url", "website_url"}
    /\ Cardinality(AttemptsIn(AllPhases)) = 6

C15_NeverPropagates ==
    /\ build_result.kind # "raised"
    /\ b_pc = "done" => Returned
    /\ (\E i \in 1..Len(b_trace) : b_trace[i].outcome = "raise") =>
          /\ Returned
          /\ ~build_result.success
          /\ build_result.message # ""
    /\ (~repo_url_valid /\ b_trace # <<>>) =>
          /\ b_trace = <<[stage |-> "parse_repo_url", outcome |-> "raise"]>>
          /\ Returned /\ ~build_result.success

\* The download raised after the server had been started.
C15_Witness ==
    /\ Returned
    /\ website_info
    /\ \E i \in 1..Len(b_trace) :
          b_trace[i] = [stage |-> "download_files_from_sandbox", outcome |-> "raise"]

\* C16: whenever build_website returns success false after the server was
\* started, stop_website_server has been run on the started process before the
\* return (without which the process cannot have been stopped by it).
C16_ServerStoppedOnFailure ==
    (Returned /\ ~build_result.success /\ website_info) =>
       StageRan("stop_website_server")

--------------------------------------------------------------------------
(* Further properties of run_website_in_sandbox *)

\* Steps the invocation can still take: three per remaining attempt of the
\* current loop (attempt, regenerate, write), the whole server loop and the
\* return while in the install loop, the return while in the server loop.
StepsLeftInLoop ==
    IF pc = "attempt" THEN 3 * (3 - retry_count)
    ELSE IF pc = "regenerate" THEN 3 * (3 - retry_count) + 2
    ELSE 3 * (3 - retry_count) + 1
StepsLeft ==
    IF pc = "done" THEN 0
    ELSE IF phase = "install" THEN 11 + StepsLeftInLoop
    ELSE IF phase \in ServerPhases THEN 1 + StepsLeftInLoop
    ELSE 1

\* C14: run_website_in_sandbox terminates whatever the external calls do: the
\* number of steps left is a natural number that every step lowers, a step is
\* possible until the function has returned, and the counter is never above 3
\* and counts every failed attempt of the current loop.
C14_Terminates ==
    /\ [](StepsLeft \in Nat)
    /\ [][StepsLeft' < StepsLeft]_vars
    /\ [](pc # "done" => ENABLED NextRun)
    /\ [](retry_count \in 0..3)
    /\ [](phase = "install" => retry_count = Cardinality(FailedIn({"install"})))
    /\ [](phase \in ServerPhases => retry_count = Cardinality(FailedIn(ServerPhases)))
    /\ [](pc = "done" => run_result.kind # "pending")

\* Both loops ran to their last attempt and the function returned.
C14_Witness ==
    /\ pc = "done"
    /\ Cardinality(FailedIn({"install"})) = 2
    /\ Cardinality(FailedIn(ServerPhases)) = 3
    /\ Len(trace) = 14

\* C19: None is returned only after three failed install attempts or three
\* failed server-start attempts.
C19_NoneOnlyAfterBudget ==
    run_result.kind = "None" =>
       \/ Cardinality(FailedIn({"install"})) = 3
       \/ Cardinality(FailedIn(ServerPhases)) = 3

\* C20: at most one server process started by the invocation is alive; none is
\* alive when an attempt is about to start its own; on a successful return the
\* returned handle is the only process alive.
C20_AtMostOneServerAlive ==
    /\ Cardinality(alive) <= 1
    /\ (phase \in ServerPhases /\ pc = "attempt") => alive = {}
    /\ run_result.kind = "result" => alive = {run_result.process}

--------------------------------------------------------------------------
(* Further properties of generate_website_in_sandbox *)

ContentMessages == {i \in 1..Len(message_list) : message_list[i].kind = "content"}

\* The last successful write to a path, if any.
LastWrite(path) ==
    LET ws == {i \in 1..Len(sandbox_ops) :
                 /\ sandbox_ops[i].op = "write" /\ sandbox_ops[i].ok
                 /\ sandbox_ops[i].path = path} IN
    IF ws = {} THEN 0 ELSE sandbox_ops[SetMax(ws)].content

\* C17: once the sandbox exists no failure concerning a file ends the
\* function: every manifest entry is still requested, in order, the sandbox is
\* returned, each entry that was generated and whose directory and write
\* succeeded is in the sandbox whatever happened to the entries before it, and
\* the history holds a content message for the generated entries only.
C17_FailureSkipsOneFile ==
    /\ message_list # <<>> => gen_result # "None"
    /\ (g_pc = "done" /\ message_list # <<>>) =>
          /\ gen_result = "sandbox"
          /\ Len(gen_requests) = Len(manifest)
          /\ \A k \in 1..Len(manifest) : gen_requests[k].file_name = manifest[k]
    /\ \A k \in Processed :
          (/\ gen_requests[k].content # 0
           /\ \E i \in OpsOf(k, "write") : sandbox_ops[i].ok) =>
             \E f \in sandbox_files :
                /\ f.path = <<"home", "user">> \o manifest[k]
                /\ f.content = LastWrite(f.path)
    /\ \A i \in ContentMessages :
          \E k \in 1..Len(gen_requests) :
             /\ gen_requests[k].content # 0
             /\ message_list[i].content = gen_requests[k].content
             /\ message_list[i].file = manifest[k]
    /\ Cardinality(ContentMessages) =
          Cardinality({k \in 1..Len(gen_requests) : gen_requests[k].content # 0})

\* Generation failed for one file, the directory for another, the write for a
\* third, and the fourth was written and the sandbox returned.
C17_Witness ==
    /\ gen_result = "sandbox"
    /\ Len(manifest) = 4
    /\ gen_requests[1].content = 0
    /\ \E i \in OpsOf(2, "mkdir") : ~sandbox_ops[i].ok
    /\ \E i \in OpsOf(3, "write") : ~sandbox_ops[i].ok
    /\ \E i \in OpsOf(4, "write") : sandbox_ops[i].ok
    /\ Cardinality(sandbox_files) = 1

\* C18: whenever a sandbox is returned, app.py and requirements.txt have both
\* been written to /home/user in it.
C18_EssentialFilesWritten ==
    gen_result = "sandbox" =>
       \A n \in {<<"app.py">>, <<"requirements.txt">>} :
          \E f \in sandbox_files : f.path = <<"home", "user">> \o n

--------------------------------------------------------------------------
(* clone_repository and fork_repository of src/github_utils.py, followed by *)
(* the publishing calls build_website makes on the clone                   *)

\* Publishing runs explored.
MaxCalls == 2

\* The repository the caller names, the authenticated user, other GitHub users.
Original == <<"acme", "site">>
user_login == "bot"
Logins == {"bot", "alice"}

\* "https://github.com/<owner>/<name>": the URL the caller passes.
HtmlUrl(repo) == <<"https://github.com", repo[1], repo[2]>>
\* `forked_repo.clone_url`: "https://github.com/<owner>/<name>.git".
CloneUrl(repo) == <<"https://github.com", repo[1], repo[2], ".git">>
\* `url.replace("https://github.com", f"https://{GITHUB_TOKEN}@github.com")`
WithToken(url) ==
    IF url[1] = "https://github.com"
    THEN [url EXCEPT ![1] = "https://TOKEN@github.com"]
    ELSE url
\* The repository a remote URL refers to.
RepoOf(url) == <<url[2], url[3]>>
\* The fork GitHub creates for a login.
ForkName(login) == <<login, Original[2]>>

\* `for fork in repo.get_forks(): if fork.owner.login == user.login`
HasForkMut(forks, login) == FALSE
HasFork(forks, login) == login \in forks

\* `head = f"{user.login}:{branch_name}"`
PullHead(login, branch) == <<login, branch>>

NoRemotes == [origin |-> None, upstream |-> None]

ForkCall(had, created, returned) ==
    [had_fork |-> had, created |-> created, returned |-> returned]

\* A new call of clone_repository(repo_url, temp_dir, use_fork) on a fresh
\* temporary directory.
CloneEntry ==
    /\ c_pc = "clone_repository"
    /\ use_fork \in BOOLEAN
    /\ c_repo_url = HtmlUrl(Original)
    /\ forked_repo = None
    /\ remotes = NoRemotes
    /\ pushed_to = None
    /\ clone_result = "pending"

CloneInit ==
    /\ CloneEntry
    /\ gh_forks \in SUBSET Logins
    /\ fork_calls = <<>>
    /\ pr_requests = <<>>
    /\ c_calls = 1

\* clone_repository or one of the publishing calls ends the run.
CloneReturns(result) ==
    /\ c_pc' = "done"
    /\ clone_result' = result

\* `if use_fork:` is false: the URL is cloned as it was passed.
SkipFork ==
    /\ c_pc = "clone_repository" /\ ~use_fork
    /\ c_pc' = "git_clone"
    /\ UNCHANGED <<use_fork, c_repo_url, forked_repo, gh_forks, fork_calls, remotes,
                   pushed_to, pr_requests, c_calls, clone_result>>
    /\ UNCHANGED nonCloneVars

\* parse_repo_url and get_repository returned.
GetOriginalOk ==
    /\ c_pc = "clone_repository" /\ use_fork
    /\ c_pc' = "fork_repository"
    /\ UNCHANGED <<use_fork, c_repo_url, forked_repo, gh_forks, fork_calls, remotes,
                   pushed_to, pr_requests, c_calls, clone_result>>
    /\ UNCHANGED nonCloneVars

\* get_repository raises (GithubException is not caught by clone_repository).
GetOriginalRaise ==
    /\ c_pc = "clone_repository" /\ use_fork
    /\ CloneReturns("raise")
    /\ UNCHANGED <<use_fork, c_repo_url, forked_repo, gh_forks, fork_calls, remotes,
                   pushed_to, pr_requests, c_calls>>
    /\ UNCHANGED nonCloneVars

\* fork_repository finds a fork owned by the user and returns it;
\* clone_repository then takes the fork's clone_url as repo_url.
ForkExisting ==
    /\ c_pc = "fork_repository"
    /\ HasFork(gh_forks, user_login)
    /\ forked_repo' = ForkName(user_login)
    /\ c_repo_url' = CloneUrl(ForkName(user_login))
    /\ fork_calls' = Append(fork_calls,
                            ForkCall(user_login \in gh_forks, FALSE, ForkName(user_login)))
    /\ c_pc' = "git_clone"
    /\ UNCHANGED <<use_fork, gh_forks, remotes, pushed_to, pr_requests, c_calls,
                   clone_result>>
    /\ UNCHANGED nonCloneVars

\* fork_repository finds no fork of the user, user.create_fork creates one.
ForkCreate ==
    /\ c_pc = "fork_repository"
    /\ ~HasFork(gh_forks, user_login)
    /\ gh_forks' = gh_forks \cup {user_login}
    /\ forked_repo' = ForkName(user_login)
    /\ c_repo_url' = CloneUrl(ForkName(user_login))
    /\ fork_calls' = Append(fork_calls,
                            ForkCall(user_login \in gh_forks, TRUE, ForkName(user_login)))
    /\ c_pc' = "git_clone"
    /\ UNCHANGED <<use_fork, remotes, pushed_to, pr_requests, c_calls, clone_result>>
    /\ UNCHANGED nonCloneVars

\* get_user, get_forks or create_fork raises GithubException: fork_repository
\* returns None and clone_repository falls back to the URL it was passed.
ForkGithubException ==
    /\ c_pc = "fork_repository"
    /\ fork_calls' = Append(fork_calls, ForkCall(user_login \in gh_forks, FALSE, None))
    /\ c_pc' = "git_clone"
    /\ UNCHANGED <<use_fork, c_repo_url, forked_repo, gh_forks, remotes, pushed_to,
                   pr_requests, c_calls, clone_result>>
    /\ UNCHANGED nonCloneVars

\* `git clone auth_repo_url local_path`: origin is the URL that was cloned.
GitCloneOk ==
    /\ c_pc = "git_clone"
    /\ remotes' = [remotes EXCEPT !.origin = WithToken(c_repo_url)]
    /\ c_pc' = "git_config"
    /\ UNCHANGED <<use_fork, c_repo_url, forked_repo, gh_forks, fork_calls, pushed_to,
                   pr_requests, c_calls, clone_result>>
    /\ UNCHANGED nonCloneVars

\* One of the git commands exits non-zero: CalledProcessError, return False.
GitCommandFail ==
    /\ c_pc \in {"git_clone", "git_config", "remote_add"}
    /\ CloneReturns("False")
    /\ UNCHANGED <<use_fork, c_repo_url, forked_repo, gh_forks, fork_calls, remotes,
                   pushed_to, pr_requests, c_calls>>
    /\ UNCHANGED nonCloneVars

\* user.name and user.email configured; without use_fork the function returns True.
GitConfigOk ==
    /\ c_pc = "git_config"
    /\ IF use_fork
       THEN c_pc' = "remote_add" /\ UNCHANGED clone_result
       ELSE CloneReturns("True")
    /\ UNCHANGED <<use_fork, c_repo_url, forked_repo, gh_forks, fork_calls, remotes,
                   pushed_to, pr_requests, c_calls>>
    /\ UNCHANGED nonCloneVars

\* `git remote add upstream repo_url.replace(...)`, return True; build_website
\* goes on to create_branch.
RemoteAddOk ==
    /\ c_pc = "remote_add"
    /\ remotes' = [remotes EXCEPT !.upstream = WithToken(c_repo_url)]
    /\ clone_result' = "True"
    /\ c_pc' = "create_branch"
    /\ UNCHANGED <<use_fork, c_repo_url, forked_repo, gh_forks, fork_calls, pushed_to,
                   pr_requests, c_calls>>
    /\ UNCHANGED nonCloneVars

\* create_branch returned True, then download_files_from_sandbox returned.
BranchAndDownloadOk ==
    /\ c_pc \in {"create_branch", "download_files_from_sandbox"}
    /\ c_pc' = IF c_pc = "create_branch" THEN "download_files_from_sandbox"
               ELSE "commit_and_push_changes"
    /\ UNCHANGED <<use_fork, c_repo_url, forked_repo, gh_forks, fork_calls, remotes,
                   pushed_to, pr_requests, c_calls, clone_result>>
    /\ UNCHANGED nonCloneVars

\* create_branch or commit_and_push_changes returned False, or the download
\* raised: build_website returns without a pull request.
PublishAbort ==
    /\ c_pc \in {"create_branch", "download_files_from_sandbox",
                 "commit_and_push_changes"}
    /\ c_pc' = "done"
    /\ UNCHANGED <<use_fork, c_repo_url, forked_repo, gh_forks, fork_calls, remotes,
                   pushed_to, pr_requests, c_calls, clone_result>>
    /\ UNCHANGED nonCloneVars

\* `git push --set-upstream origin HEAD`: the branch arrives in the repository
\* origin refers to.
CommitAndPushOk ==
    /\ c_pc = "commit_and_push_changes"
    /\ pushed_to' = RepoOf(remotes.origin)
    /\ c_pc' = "create_pull_request"
    /\ UNCHANGED <<use_fork, c_repo_url, forked_repo, gh_forks, fork_calls, remotes,
                   pr_requests, c_calls, clone_result>>
    /\ UNCHANGED nonCloneVars

\* create_pull_request: repo.create_pull(head = "<user.login>:<branch_name>") on
\* the original repository; GitHub accepts or rejects it (GithubException, None).
CreatePullRequest ==
    /\ c_pc = "create_pull_request"
    /\ \E accepted \in BOOLEAN :
          pr_requests' = Append(pr_requests,
                                [head |-> PullHead(user_login, c_calls),
                                 repo |-> Original,
                                 run |-> c_calls,
                                 accepted |-> accepted])
    /\ c_pc' = "done"
    /\ UNCHANGED <<use_fork, c_repo_url, forked_repo, gh_forks, fork_calls, remotes,
                   pushed_to, c_calls, clone_result>>
    /\ UNCHANGED nonCloneVars

\* The next request: a new temporary directory, the same GitHub.
NextCall ==
    /\ c_pc = "done"
    /\ c_calls < MaxCalls
    /\ c_calls' = c_calls + 1
    /\ c_pc' = "clone_repository"
    /\ use_fork' \in BOOLEAN
    /\ c_repo_url' = HtmlUrl(Original)
    /\ forked_repo' = None
    /\ remotes' = NoRemotes
    /\ pushed_to' = None
    /\ clone_result' = "pending"
    /\ UNCHANGED <<gh_forks, fork_calls, pr_requests>>
    /\ UNCHANGED nonCloneVars

NextClone ==
    \/ SkipFork
    \/ GetOriginalOk
    \/ GetOriginalRaise
    \/ ForkExisting
    \/ ForkCreate
    \/ ForkGithubException
    \/ GitCloneOk
    \/ GitCommandFail
    \/ GitConfigOk
    \/ RemoteAddOk
    \/ BranchAndDownloadOk
    \/ PublishAbort
    \/ CommitAndPushOk
    \/ CreatePullRequest
    \/ NextCall

InitClone == CloneInit /\ RunIdle /\ DefIdle /\ GenIdle /\ BuildIdle /\ SshIdle /\ Ec2Idle /\ DlIdle

SpecClone == InitClone /\ [][NextClone]_vars

--------------------------------------------------------------------------
(* Properties of clone_repository, fork_repository and the pull request *)

\* The repository a head "<login>:<branch>" names: the fork of that login (the
\* original itself for the login that owns it).
HeadRepo(head) == ForkName(head[1])

ForksCreated == {i \in 1..Len(fork_calls) : fork_calls[i].created}

\* C21: when clone_repository is called with use_fork true, the fork is
\* obtained and the function returns True, the remote upstream of the clone
\* refers to the original repository (the URL the caller passed) and the
\* remote origin refers to the fork.
C21_UpstreamIsOriginal ==
    (use_fork /\ clone_result = "True" /\ forked_repo # None) =>
       /\ RepoOf(remotes.origin) = ForkName(user_login)
       /\ RepoOf(remotes.upstream) = Original

\* C22: every create_pull request of the current run has as its head
\* "<authenticated user>:<branch>" a name of the repository that received the
\* push of this run, also when forking failed and the original was cloned.
C22_HeadNamesPushedRepository ==
    \A i \in 1..Len(pr_requests) :
       pr_requests[i].run = c_calls =>
          HeadRepo(pr_requests[i].head) = pushed_to

\* C23: fork_repository creates a fork only when the user owns no fork of the
\* repository; when the user owns one, no fork is created and the call returns
\* that fork (or None when GitHub raised); over all calls at most one fork is
\* created.
C23_AtMostOneFork ==
    /\ \A i \in 1..Len(fork_calls) :
          /\ fork_calls[i].created => ~fork_calls[i].had_fork
          /\ fork_calls[i].had_fork =>
                /\ ~fork_calls[i].created
                /\ fork_calls[i].returned \in {None, ForkName(user_login)}
          /\ fork_calls[i].returned # None => user_login \in gh_forks
    /\ Cardinality(ForksCreated) <= 1

\* The first call created the fork, the second call found and returned it.
C23_Witness ==
    /\ Len(fork_calls) = 2
    /\ fork_calls[1].created
    /\ fork_calls[2].had_fork
    /\ ~fork_calls[2].created
    /\ fork_calls[2].returned = ForkName(user_login)

--------------------------------------------------------------------------
(* wait_for_ssh of src/deploy_to_ec2.py *)

\* Largest value of the parameter retries explored besides the default.
MaxRetries == 4

\* `def wait_for_ssh(hostname, retries=10, delay=15)`
DefaultRetries == 10
DefaultDelay == 15

RetriesValues == 0..MaxRetries \cup {DefaultRetries}
DelayValues == {0, DefaultDelay}

SshEv(op, i, ok, secs) == [op |-> op, i |-> i, ok |-> ok, secs |-> secs]

\* `for i in range(retries)`: the loop body runs for i.
InRange(i, n) == i < n

\* `if i < retries - 1:` in the except handler.
SleepsAfterMut(i, n) == i < n
SleepsAfter(i, n) == i < n - 1

SshInit ==
    /\ w_pc = "connect"
    /\ retries \in RetriesValues
    /\ delay \in DelayValues
    /\ ssh_i = 0
    /\ ssh_trace = <<>>
    /\ ssh_result = "pending"

\* ssh.connect returns: ssh.close(), return True.
ConnectOk ==
    /\ w_pc = "connect" /\ InRange(ssh_i, retries)
    /\ ssh_trace' = Append(ssh_trace, SshEv("connect", ssh_i, TRUE, 0))
    /\ ssh_result' = "True"
    /\ w_pc' = "done"
    /\ UNCHANGED <<retries, delay, ssh_i>>
    /\ UNCHANGED nonSshVars

\* ssh.connect raises: the except handler is entered.
ConnectFail ==
    /\ w_pc = "connect" /\ InRange(ssh_i, retries)
    /\ ssh_trace' = Append(ssh_trace, SshEv("connect", ssh_i, FALSE, 0))
    /\ w_pc' = "except"
    /\ UNCHANGED <<retries, delay, ssh_i, ssh_result>>
    /\ UNCHANGED nonSshVars

\* The except handler: time.sleep(delay) unless this was the last attempt, then
\* the next value of i.
HandleConnectFail ==
    /\ w_pc = "except"
    /\ ssh_trace' = IF SleepsAfter(ssh_i, retries)
                    THEN Append(ssh_trace, SshEv("sleep", ssh_i, TRUE, delay))
                    ELSE ssh_trace
    /\ ssh_i' = ssh_i + 1
    /\ w_pc' = "connect"
    /\ UNCHANGED <<retries, delay, ssh_result>>
    /\ UNCHANGED nonSshVars

\* The range is exhausted: return False.
SshReturnFalse ==
    /\ w_pc = "connect" /\ ~InRange(ssh_i, retries)
    /\ ssh_result' = "False"
    /\ w_pc' = "done"
    /\ UNCHANGED <<retries, delay, ssh_i, ssh_trace>>
    /\ UNCHANGED nonSshVars

NextSsh ==
    \/ ConnectOk
    \/ ConnectFail
    \/ HandleConnectFail
    \/ SshReturnFalse

InitSsh == SshInit /\ RunIdle /\ DefIdle /\ GenIdle /\ BuildIdle /\ CloneIdle /\ Ec2Idle /\ DlIdle

SpecSsh == InitSsh /\ [][NextSsh]_vars

--------------------------------------------------------------------------
(* Properties of wait_for_ssh *)

Connects == {k \in 1..Len(ssh_trace) : ssh_trace[k].op = "connect"}
Sleeps == {k \in 1..Len(ssh_trace) : ssh_trace[k].op = "sleep"}
ConnectsOk == {k \in Connects : ssh_trace[k].ok}

\* C24: wait_for_ssh makes at most `retries` connection attempts; the first
\* attempt that connects is the last call it makes and it returns True; it
\* returns False only after `retries` attempts, all failed; it sleeps `delay`
\* exactly once between two consecutive attempts, and never after the last
\* failed attempt.
C24_BoundedAttempts ==
    /\ Cardinality(Connects) <= retries
    /\ \A k \in ConnectsOk : k = Len(ssh_trace) /\ ssh_result = "True"
    /\ ssh_result = "True" => ConnectsOk # {}
    /\ ssh_result = "False" =>
          /\ Cardinality(Connects) = retries
          /\ ConnectsOk = {}
          /\ Len(ssh_trace) > 0 => ssh_trace[Len(ssh_trace)].op = "connect"
    /\ \A k \in Sleeps :
          /\ ssh_trace[k].secs = delay
          /\ k > 1 /\ ssh_trace[k - 1].op = "connect" /\ ~ssh_trace[k - 1].ok
          /\ ssh_trace[k - 1].i < retries - 1
          /\ k < Len(ssh_trace) => ssh_trace[k + 1].op = "connect"
    /\ \A k \in Connects :
          k > 1 => ssh_trace[k - 1].op = "sleep"

\* Three attempts failed with a sleep after the first and the second only, and
\* False was returned.
C24_Witness ==
    /\ retries = 3
    /\ ssh_result = "False"
    /\ Len(ssh_trace) = 5
    /\ Cardinality(Sleeps) = 2

--------------------------------------------------------------------------
(* main of src/deploy_to_ec2.py, with get_or_create_security_group and      *)
(* get_or_launch_instance                                                  *)

\* Instances the account holds before the deployment.
MaxInstances == 2

ALLOWED_IPS == <<"54.157.14.34/32", "47.230.210.140/32">>
INSTANCE_NAME == "deploybot-server"

\* One inbound rule of a group: protocol, port range and one source range.
Rule(port, cidr) == [IpProtocol |-> "tcp", FromPort |-> port, ToPort |-> port,
                     CidrIp |-> cidr]

\* `'IpRanges': [{'CidrIp': ip} for ip in ALLOWED_IPS]`
AllowedRanges == [k \in 1..Len(ALLOWED_IPS) |-> ALLOWED_IPS[k]]

\* One element of ip_permissions.
Permission(port, ranges) ==
    [IpProtocol |-> "tcp", FromPort |-> port, ToPort |-> port, IpRanges |-> ranges]

\* The list ip_permissions both branches build: SSH from anywhere, then one
\* permission per port of [80, 443, 8000] restricted to ALLOWED_IPS.
RestrictedPorts == <<80, 443, 8000>>
ip_permissions ==
    <<Permission(22, <<"0.0.0.0/0">>)>> \o
    [k \in 1..Len(RestrictedPorts) |-> Permission(RestrictedPorts[k], AllowedRanges)]

\* The rules a list of permissions stands for.
RulesOf(perms) ==
    UNION {{Rule(perms[k].FromPort, perms[k].IpRanges[j]) :
               j \in 1..Len(perms[k].IpRanges)} : k \in 1..Len(perms)}

\* Rules a group may hold from an earlier configuration.
OldRules == {Rule(22, "0.0.0.0/0"), Rule(80, "0.0.0.0/0"), Rule(3306, "0.0.0.0/0")}

\* revoke_security_group_ingress(IpPermissions = listed) on a group holding rules.
RevokedMut(rules, listed) == rules
Revoked(rules, listed) == rules \ listed

\* The instances of the account: ids 1..n, each with a Name tag and a state.
InstanceNames == {INSTANCE_NAME, "other"}
InstanceStates == {"running", "pending", "stopped"}
InstanceSets ==
    UNION {{{[id |-> i, name |-> f[i][1], state |-> f[i][2]] : i \in 1..n} :
               f \in [1..n -> InstanceNames \X InstanceStates]} :
           n \in 0..MaxInstances}

\* `ec2_resource.instances.filter(tag:Name = INSTANCE_NAME,
\*                                instance-state-name in [running, pending])`
MatchesFilterMut(inst) == inst.name = INSTANCE_NAME /\ inst.state = "running"
MatchesFilter(inst) == inst.name = INSTANCE_NAME /\ inst.state \in {"running", "pending"}
Filtered(insts) == {inst \in insts : MatchesFilter(inst)}

SgOp(op, before, after) == [op |-> op, before |-> before, after |-> after]
Step(stage, outcome) == [stage |-> stage, outcome |-> outcome]

\* The step of main a position belongs to.
SgPositions == {"security_group", "sg_revoke", "sg_authorize", "sg_create",
                "sg_authorize_new"}
StepOf(position) ==
    IF position \in SgPositions THEN "get_or_create_security_group" ELSE position

Ec2Init ==
    /\ m_pc = "credentials"
    /\ aws_credentials \in BOOLEAN
    /\ sg_exists \in BOOLEAN
    /\ sg_rules \in (IF sg_exists THEN SUBSET OldRules ELSE {{}})
    /\ response_rules = {}
    /\ sg_ops = <<>>
    /\ sg_result = "pending"
    /\ ec2_instances \in InstanceSets
    /\ launches = <<>>
    /\ m_trace = <<>>
    /\ main_result = "pending"

\* `if not AWS_ACCESS_KEY_ID or not AWS_SECRET_ACCESS_KEY: raise ValueError`
\* (outside every try), else the two boto3 clients are built.
CheckCredentials ==
    /\ m_pc = "credentials"
    /\ IF aws_credentials
       THEN m_pc' = "clients" /\ UNCHANGED main_result
       ELSE m_pc' = "done" /\ main_result' = "raise"
    /\ UNCHANGED <<aws_credentials, sg_exists, sg_rules, response_rules, sg_ops,
                   sg_result, ec2_instances, launches, m_trace>>
    /\ UNCHANGED nonEc2Vars

\* boto3.client / boto3.resource: on an exception main prints and returns.
InitClients ==
    /\ m_pc = "clients"
    /\ \E ok \in BOOLEAN :
          IF ok
          THEN m_pc' = "security_group" /\ UNCHANGED main_result
          ELSE m_pc' = "done" /\ main_result' = "returned"
    /\ UNCHANGED <<aws_credentials, sg_exists, sg_rules, response_rules, sg_ops,
                   sg_result, ec2_instances, launches, m_trace>>
    /\ UNCHANGED nonEc2Vars

\* A call of the current step raises something its function does not handle:
\* main's `except Exception` prints and main returns.
StepRaises ==
    /\ m_pc \in SgPositions \cup {"get_or_create_key_pair", "get_or_launch_instance",
                                 "setup_instance", "deploy_application"}
    /\ m_trace' = Append(m_trace, Step(StepOf(m_pc), "raise"))
    /\ sg_result' = IF m_pc \in SgPositions THEN "raise" ELSE sg_result
    /\ m_pc' = "done"
    /\ main_result' = "returned"
    /\ UNCHANGED <<aws_credentials, sg_exists, sg_rules, response_rules, sg_ops,
                   ec2_instances, launches>>
    /\ UNCHANGED nonEc2Vars

\* describe_security_groups finds the group: its id and its IpPermissions.
DescribeFound ==
    /\ m_pc = "security_group" /\ sg_exists
    /\ response_rules' = sg_rules
    /\ sg_ops' = Append(sg_ops, SgOp("describe", sg_rules, sg_rules))
    /\ m_pc' = "sg_revoke"
    /\ UNCHANGED <<aws_credentials, sg_exists, sg_rules, sg_result, ec2_instances,
                   launches, m_trace, main_result>>
    /\ UNCHANGED nonEc2Vars

\* describe_security_groups raises ClientError InvalidGroup.NotFound.
DescribeNotFound ==
    /\ m_pc = "security_group" /\ ~sg_exists
    /\ sg_ops' = Append(sg_ops, SgOp("describe", {}, {}))
    /\ m_pc' = "sg_create"
    /\ UNCHANGED <<aws_credentials, sg_exists, sg_rules, response_rules, sg_result,
                   ec2_instances, launches, m_trace, main_result>>
    /\ UNCHANGED nonEc2Vars

\* revoke_security_group_ingress with the IpPermissions of the response.
RevokeOk ==
    /\ m_pc = "sg_revoke"
    /\ sg_rules' = Revoked(sg_rules, response_rules)
    /\ sg_ops' = Append(sg_ops, SgOp("revoke", sg_rules, sg_rules'))
    /\ m_pc' = "sg_authorize"
    /\ UNCHANGED <<aws_credentials, sg_exists, response_rules, sg_result,
                   ec2_instances, launches, m_trace, main_result>>
    /\ UNCHANGED nonEc2Vars

\* The group was deleted after the describe: revoke or authorize raises
\* InvalidGroup.NotFound and the handler creates the group.
GroupVanished ==
    /\ m_pc \in {"sg_revoke", "sg_authorize"}
    /\ sg_exists' = FALSE
    /\ sg_rules' = {}
    /\ sg_ops' = Append(sg_ops, SgOp("not_found", sg_rules, {}))
    /\ m_pc' = "sg_create"
    /\ UNCHANGED <<aws_credentials, response_rules, sg_result, ec2_instances,
                   launches, m_trace, main_result>>
    /\ UNCHANGED nonEc2Vars

\* create_security_group: a new group has no inbound rule.
CreateGroupOk ==
    /\ m_pc = "sg_create"
    /\ sg_exists' = TRUE
    /\ sg_rules' = {}
    /\ sg_ops' = Append(sg_ops, SgOp("create", sg_rules, {}))
    /\ m_pc' = "sg_authorize_new"
    /\ UNCHANGED <<aws_credentials, response_rules, sg_result, ec2_instances,
                   launches, m_trace, main_result>>
    /\ UNCHANGED nonEc2Vars

\* authorize_security_group_ingress(ip_permissions) (AWS rejects a rule the
\* group already holds), return security_group_id.
AuthorizeOk ==
    /\ m_pc \in {"sg_authorize", "sg_authorize_new"}
    /\ sg_rules \cap RulesOf(ip_permissions) = {}
    /\ sg_rules' = sg_rules \cup RulesOf(ip_permissions)
    /\ sg_ops' = Append(sg_ops, SgOp("authorize", sg_rules, sg_rules'))
    /\ sg_result' = "returned"
    /\ m_trace' = Append(m_trace, Step("get_or_create_security_group", "ok"))
    /\ m_pc' = "get_or_create_key_pair"
    /\ UNCHANGED <<aws_credentials, sg_exists, response_rules, ec2_instances,
                   launches, main_result>>
    /\ UNCHANGED nonEc2Vars

\* Where main goes after a step that returned.
StepAfter(position) ==
    CASE position = "get_or_create_key_pair" -> "get_or_launch_instance"
      [] position = "setup_instance" -> "deploy_application"
      [] position = "deploy_application" -> "done"

\* get_or_create_key_pair, setup_instance or deploy_application returns (failed
\* remote commands are printed, not raised); after the deployment main returns.
StepReturns ==
    /\ m_pc \in {"get_or_create_key_pair", "setup_instance", "deploy_application"}
    /\ m_trace' = Append(m_trace, Step(m_pc, "ok"))
    /\ m_pc' = StepAfter(m_pc)
    /\ main_result' = IF m_pc = "deploy_application" THEN "returned" ELSE main_result
    /\ UNCHANGED <<aws_credentials, sg_exists, sg_rules, response_rules, sg_ops,
                   sg_result, ec2_instances, launches>>
    /\ UNCHANGED nonEc2Vars

\* get_or_launch_instance: the filter lists an instance, instances[0] is returned.
InstanceFound ==
    /\ m_pc = "get_or_launch_instance"
    /\ Filtered(ec2_instances) # {}
    /\ m_trace' = Append(m_trace, Step("get_or_launch_instance", "ok"))
    /\ m_pc' = "wait_for_ssh"
    /\ UNCHANGED <<aws_credentials, sg_exists, sg_rules, response_rules, sg_ops,
                   sg_result, ec2_instances, launches, main_result>>
    /\ UNCHANGED nonEc2Vars

\* get_or_launch_instance: the filter lists nothing, create_instances launches
\* one instance tagged INSTANCE_NAME; wait_until_running returns or raises.
InstanceLaunch ==
    /\ m_pc = "get_or_launch_instance"
    /\ Filtered(ec2_instances) = {}
    /\ launches' = Append(launches, [existing |-> ec2_instances])
    /\ \E running \in BOOLEAN :
          /\ ec2_instances' = ec2_instances \cup
                {[id |-> Cardinality(ec2_instances) + 1, name |-> INSTANCE_NAME,
                  state |-> IF running THEN "running" ELSE "pending"]}
          /\ m_trace' = Append(m_trace, Step("get_or_launch_instance",
                                             IF running THEN "ok" ELSE "raise"))
          /\ m_pc' = IF running THEN "wait_for_ssh" ELSE "done"
          /\ main_result' = IF running THEN main_result ELSE "returned"
    /\ UNCHANGED <<aws_credentials, sg_exists, sg_rules, response_rules, sg_ops,
                   sg_result>>
    /\ UNCHANGED nonEc2Vars

\* `if wait_for_ssh(instance.public_dns_name):` the call, with the defaults.
WaitForSshCall ==
    /\ m_pc = "wait_for_ssh"
    /\ w_pc = "idle"
    /\ m_pc' = "waiting"
    /\ w_pc' = "connect"
    /\ retries' = DefaultRetries
    /\ delay' = DefaultDelay
    /\ ssh_i' = 0
    /\ ssh_trace' = <<>>
    /\ ssh_result' = "pending"
    /\ UNCHANGED <<aws_credentials, sg_exists, sg_rules, response_rules, sg_ops,
                   sg_result, ec2_instances, launches, m_trace, main_result>>
    /\ UNCHANGED <<runVars, defVars, genVars, buildVars, cloneVars, dlVars>>

\* wait_for_ssh returned: True leads to the set-up, False ends main.
WaitForSshReturns ==
    /\ m_pc = "waiting"
    /\ w_pc = "done"
    /\ m_trace' = Append(m_trace, Step("wait_for_ssh", ssh_result))
    /\ m_pc' = IF ssh_result = "True" THEN "setup_instance" ELSE "done"
    /\ main_result' = IF ssh_result = "True" THEN main_result ELSE "returned"
    /\ UNCHANGED <<aws_credentials, sg_exists, sg_rules, response_rules, sg_ops,
                   sg_result, ec2_instances, launches>>
    /\ UNCHANGED nonEc2Vars

NextDeploy ==
    \/ CheckCredentials
    \/ InitClients
    \/ StepRaises
    \/ DescribeFound
    \/ DescribeNotFound
    \/ RevokeOk
    \/ GroupVanished
    \/ CreateGroupOk
    \/ AuthorizeOk
    \/ StepReturns
    \/ InstanceFound
    \/ InstanceLaunch
    \/ WaitForSshCall
    \/ NextSsh
    \/ WaitForSshReturns

InitDeploy == Ec2Init /\ RunIdle /\ DefIdle /\ GenIdle /\ BuildIdle /\ CloneIdle /\ SshIdle /\ DlIdle

SpecDeploy == InitDeploy /\ [][NextDeploy]_vars

--------------------------------------------------------------------------
(* Properties of the EC2 deployment *)

StepOrder == <<"get_or_create_security_group", "get_or_create_key_pair",
               "get_or_launch_instance", "wait_for_ssh", "setup_instance",
               "deploy_application">>

StepsRun == {m_trace[k].stage : k \in 1..Len(m_trace)}

\* C25: the steps of main run in the order security group, key pair,
\* instance, SSH wait, set-up, deployment, each at most once and each only
\* after the step before it returned (the SSH wait with True); so set-up and
\* deployment run only after wait_for_ssh returned True and deployment only
\* after set-up; an instance is launched at most once, and only when no running
\* or pending instance tagged INSTANCE_NAME exists.
C25_DeploymentOrder ==
    /\ Len(m_trace) <= Len(StepOrder)
    /\ \A k \in 1..Len(m_trace) :
          /\ m_trace[k].stage = StepOrder[k]
          /\ k > 1 => m_trace[k - 1].outcome \in {"ok", "True"}
    /\ \A k \in 1..Len(m_trace) :
          m_trace[k].stage = "wait_for_ssh" =>
             m_trace[k].outcome = ssh_result /\ ssh_result \in {"True", "False"}
    /\ m_pc \in {"setup_instance", "deploy_application"} => ssh_result = "True"
    /\ Len(launches) <= 1
    /\ \A k \in 1..Len(launches) :
          \A inst \in launches[k].existing :
             ~(inst.name = "deploybot-server" /\ inst.state \in {"running", "pending"})

\* All six steps ran, and the instance was launched although a stopped instance
\* with the name tag and a running instance with another name existed.
C25_Witness ==
    /\ main_result = "returned"
    /\ Len(m_trace) = 6
    /\ m_trace[6].outcome = "ok"
    /\ Len(launches) = 1
    /\ \E inst \in launches[1].existing :
          inst.name = "deploybot-server" /\ inst.state = "stopped"
    /\ \E inst \in launches[1].existing :
          inst.name = "other" /\ inst.state = "running"

\* The rule set named by the claim.
ExpectedRules ==
    {Rule(22, "0.0.0.0/0")} \cup
    {Rule(port, ip) : port \in {80, 443, 8000},
                      ip \in {"54.157.14.34/32", "47.230.210.140/32"}}

\* C26: after get_or_create_security_group returned, the group exists and its
\* inbound rules are exactly TCP 22 from anywhere and TCP 80, 443, 8000 from
\* the ALLOWED_IPS, whether the group was created or existed with other rules;
\* the new rules are authorized only on a group that holds no rule (the old
\* ones were all revoked, or the group is new).
C26_ExactRules ==
    /\ sg_result = "returned" => sg_exists /\ sg_rules = ExpectedRules
    /\ \A k \in 1..Len(sg_ops) :
          sg_ops[k].op = "authorize" =>
             /\ sg_ops[k].before = {}
             /\ k > 1 /\ sg_ops[k - 1].op \in {"revoke", "create"}
             /\ sg_ops[k].after = ExpectedRules

\* The group existed with SSH, public HTTP and a database port open; they were
\* revoked and the function returned.
C26_Witness ==
    /\ sg_result = "returned"
    /\ \E k \in 1..Len(sg_ops) :
          /\ sg_ops[k].op = "revoke"
          /\ sg_ops[k].before = OldRules
    /\ sg_ops[Len(sg_ops)].op = "authorize"
    /\ Len(sg_ops) = 3

--------------------------------------------------------------------------
(* download_files_from_sandbox of src/main.py *)

\* Deepest chain of nested directories in the sandbox.
MaxDepth == 2

\* A file or directory name: its first character and the rest.
Nm(first, rest) == <<first, rest>>

\* `entry.name.startswith('.')`
StartsWithDotMut(name) == FALSE
StartsWithDot(name) == name[1] = "."

\* The two directories build_website passes: '/home/user' and temp_dir.
RemoteRoot == <<Nm("h", "ome"), Nm("u", "ser")>>
LocalRoot == <<Nm("t", "mp"), Nm("t", "mpdir")>>

\* What sandbox.files.read returns: a str (code points) or bytes.
Str(data) == [kind |-> "str", data |-> data]
Bytes(data) == [kind |-> "bytes", data |-> data]

\* str.encode('utf-8') for code points below 2048.
RECURSIVE EncodeUtf8(_)
EncodeUtf8(text) ==
    IF text = <<>> THEN <<>>
    ELSE (IF text[1] < 128 THEN <<text[1]>>
          ELSE <<192 + (text[1] \div 64), 128 + (text[1] % 64)>>)
         \o EncodeUtf8(Tail(text))

\* What f.write receives: `content.encode('utf-8')` for a str, content otherwise.
Written(content) ==
    IF content.kind = "str" THEN EncodeUtf8(content.data) ELSE content.data

FileEntry(path, content) == [path |-> RemoteRoot \o path, type |-> "file",
                             content |-> content]
DirEntry(path) == [path |-> RemoteRoot \o path, type |-> "dir", content |-> Bytes(<<>>)]

\* The directory nested d deep: static/static/...
Chain(d) == [k \in 1..d |-> Nm("s", "tatic")]

\* The sandbox trees explored: app.py with one of three contents, a hidden
\* file, a hidden directory with a file in it, and nested directories each
\* with or without a file.
AppChoices ==
    {{}} \cup {{FileEntry(<<Nm("a", "pp.py")>>, c)} :
                  c \in {Str(<<104>>), Str(<<233, 33>>), Bytes(<<195, 169>>)}}
EnvChoices == {{}, {FileEntry(<<Nm(".", "env")>>, Str(<<75>>))}}
GitChoices ==
    {{}, {DirEntry(<<Nm(".", "git")>>)},
     {DirEntry(<<Nm(".", "git")>>),
      FileEntry(<<Nm(".", "git"), Nm("c", "onfig")>>, Str(<<91>>))}}
ChainChoices ==
    UNION {{{DirEntry(Chain(k)) : k \in 1..d} \cup
            {FileEntry(Chain(k) \o <<Nm("i", "ndex.html")>>, Str(<<60, 104>>)) :
                k \in withFile} :
              withFile \in SUBSET (1..d)} :
           d \in 0..MaxDepth}
Trees == {a \cup e \cup g \cup c :
             a \in AppChoices, e \in EnvChoices, g \in GitChoices, c \in ChainChoices}

\* `sandbox.files.list(remote_dir)`: the entries directly below remote_dir.
Listed(tree, dir) ==
    {e \in tree : Len(e.path) = Len(dir) + 1 /\ SubSeq(e.path, 1, Len(dir)) = dir}

\* `entry.name`
EntryName(e) == e.path[Len(e.path)]

\* `os.path.relpath(file_path, remote_dir)` for a path below remote_dir.
Relpath(path, start) == SubSeq(path, Len(start) + 1, Len(path))

\* `os.path.join(local_dir, relative_path)`
Join(dir, rel) == dir \o rel

\* `os.makedirs(d, exist_ok=True)`: d and its missing ancestors.
Makedirs(dirs, d) == dirs \cup {SubSeq(d, 1, k) : k \in 1..Len(d)}

\* `open(local_path, 'wb')` and f.write: the file is created or replaced.
WriteLocal(lfiles, path, bytes) ==
    {f \in lfiles : f.path # path} \cup {[path |-> path, bytes |-> bytes]}

Frame(rdir, ldir, entries) == [remote_dir |-> rdir, local_dir |-> ldir,
                               entries |-> entries]

DlInit ==
    /\ dl_pc = "call"
    /\ remote_tree \in Trees
    /\ local_files \in {{}, {[path |-> LocalRoot \o <<Nm("a", "pp.py")>>,
                              bytes |-> <<35>>]}}
    /\ local_dirs = Makedirs({}, LocalRoot)
    /\ dl_stack = <<Frame(RemoteRoot, LocalRoot, {})>>
    /\ dl_reads = <<>>
    /\ dl_result = "pending"

\* The innermost active call, and the stack with that call's entry e done.
TopFrame == dl_stack[Len(dl_stack)]
WithoutEntry(e) ==
    [dl_stack EXCEPT ![Len(dl_stack)].entries = TopFrame.entries \ {e}]

\* `entries = sandbox.files.list(remote_dir)` returns.
ListOk ==
    /\ dl_pc = "call"
    /\ dl_stack' = [dl_stack EXCEPT ![Len(dl_stack)].entries =
                       Listed(remote_tree, TopFrame.remote_dir)]
    /\ dl_pc' = "loop"
    /\ UNCHANGED <<remote_tree, local_files, local_dirs, dl_reads, dl_result>>
    /\ UNCHANGED nonDlVars

\* sandbox.files.list raises: nothing catches it, every active call is left.
ListRaises ==
    /\ dl_pc = "call"
    /\ dl_stack' = <<>>
    /\ dl_pc' = "done"
    /\ dl_result' = "raise"
    /\ UNCHANGED <<remote_tree, local_files, local_dirs, dl_reads>>
    /\ UNCHANGED nonDlVars

\* `if entry.name.startswith('.'): continue`
SkipHidden ==
    /\ dl_pc = "loop"
    /\ \E e \in TopFrame.entries :
          /\ StartsWithDot(EntryName(e))
          /\ dl_stack' = WithoutEntry(e)
    /\ UNCHANGED <<dl_pc, remote_tree, local_files, local_dirs, dl_reads, dl_result>>
    /\ UNCHANGED nonDlVars

\* A directory: makedirs of the corresponding local directory, recursive call.
EnterDir ==
    /\ dl_pc = "loop"
    /\ \E e \in TopFrame.entries :
          /\ ~StartsWithDot(EntryName(e))
          /\ e.type = "dir"
          /\ LET relative_path == Relpath(e.path, TopFrame.remote_dir)
                 new_local_dir == Join(TopFrame.local_dir, relative_path)
             IN /\ local_dirs' = Makedirs(local_dirs, new_local_dir)
                /\ dl_stack' = Append(WithoutEntry(e), Frame(e.path, new_local_dir, {}))
    /\ dl_pc' = "call"
    /\ UNCHANGED <<remote_tree, local_files, dl_reads, dl_result>>
    /\ UNCHANGED nonDlVars

\* A file: makedirs of the parent, then read and write inside the try; a
\* failure is printed and the loop goes on.
CopyFile ==
    /\ dl_pc = "loop"
    /\ \E e \in TopFrame.entries, ok \in BOOLEAN :
          /\ ~StartsWithDot(EntryName(e))
          /\ e.type = "file"
          /\ LET relative_path == Relpath(e.path, TopFrame.remote_dir)
                 local_path == Join(TopFrame.local_dir, relative_path)
             IN /\ local_dirs' = Makedirs(local_dirs, Dirname(local_path))
                /\ local_files' = IF ok
                                  THEN WriteLocal(local_files, local_path,
                                                  Written(e.content))
                                  ELSE local_files
          /\ dl_reads' = Append(dl_reads, [path |-> e.path, ok |-> ok])
          /\ dl_stack' = WithoutEntry(e)
    /\ UNCHANGED <<dl_pc, remote_tree, dl_result>>
    /\ UNCHANGED nonDlVars

\* The for loop is over: the call returns to its caller's loop.
ReturnFrame ==
    /\ dl_pc = "loop"
    /\ TopFrame.entries = {}
    /\ dl_stack' = SubSeq(dl_stack, 1, Len(dl_stack) - 1)
    /\ IF Len(dl_stack) = 1
       THEN dl_pc' = "done" /\ dl_result' = "returned"
       ELSE UNCHANGED <<dl_pc, dl_result>>
    /\ UNCHANGED <<remote_tree, local_files, local_dirs, dl_reads>>
    /\ UNCHANGED nonDlVars

NextDownload ==
    \/ ListOk
    \/ ListRaises
    \/ SkipHidden
    \/ EnterDir
    \/ CopyFile
    \/ ReturnFrame

InitDownload ==
    DlInit /\ RunIdle /\ DefIdle /\ GenIdle /\ BuildIdle /\ CloneIdle /\ SshIdle /\ Ec2Idle

SpecDownload == InitDownload /\ [][NextDownload]_vars

--------------------------------------------------------------------------
(* Properties of download_files_from_sandbox *)

RemoteFiles == {e \in remote_tree : e.type = "file"}

\* The path of an entry relative to /home/user, and whether none of its
\* components is hidden.
RelativeToRoot(e) == SubSeq(e.path, Len(RemoteRoot) + 1, Len(e.path))
Visible(e) == \A k \in 1..Len(RelativeToRoot(e)) : RelativeToRoot(e)[k][1] # "."

ReadsOf(e) == {k \in 1..Len(dl_reads) : dl_reads[k].path = e.path}
ReadFailed(e) == \E k \in ReadsOf(e) : ~dl_reads[k].ok

\* The text a sequence of UTF-8 bytes stands for (code points below 2048).
RECURSIVE DecodeUtf8(_)
DecodeUtf8(bytes) ==
    IF bytes = <<>> THEN <<>>
    ELSE IF bytes[1] < 128 THEN <<bytes[1]>> \o DecodeUtf8(Tail(bytes))
    ELSE IF bytes[1] >= 192 /\ Len(bytes) >= 2
         THEN <<(bytes[1] - 192) * 64 + (bytes[2] - 128)>> \o
              DecodeUtf8(Tail(Tail(bytes)))
    ELSE <<-1>>

\* The local bytes hold the content that was read.
SameContent(bytes, content) ==
    IF content.kind = "str" THEN DecodeUtf8(bytes) = content.data
    ELSE bytes = content.data

LocalAt(path) == {f \in local_files : f.path = path}

\* C27: when download_files_from_sandbox returns, every non-hidden file below
\* the remote directory whose read did not fail is on the local disk at the
\* same relative path with the same content, at every depth; every such file
\* was read exactly once, also after the read of another file failed; nothing
\* with a hidden component was read, written or created.
C27_CopiesVisibleFiles ==
    /\ \A k \in 1..Len(dl_reads) :
          \E e \in RemoteFiles : e.path = dl_reads[k].path /\ Visible(e)
    /\ \A d \in local_dirs : \A k \in 1..Len(d) : d[k][1] # "."
    /\ dl_result = "returned" =>
          \A e \in RemoteFiles :
             LET local_path == LocalRoot \o RelativeToRoot(e) IN
             /\ Visible(e) => Cardinality(ReadsOf(e)) = 1
             /\ (Visible(e) /\ ~ReadFailed(e)) =>
                   \E f \in LocalAt(local_path) :
                      /\ SameContent(f.bytes, e.content)
                      /\ Cardinality(LocalAt(local_path)) = 1
             /\ ~Visible(e) => LocalAt(local_path) = {}

\* The call returned; the read of app.py failed and files read after it were
\* copied, one of them two directories deep; .git/config stayed behind.
C27_Witness ==
    /\ dl_result = "returned"
    /\ \E k \in 1..Len(dl_reads) :
          /\ ~dl_reads[k].ok
          /\ dl_reads[k].path = RemoteRoot \o <<Nm("a", "pp.py")>>
          /\ \E j \in (k + 1)..Len(dl_reads) :
                /\ dl_reads[j].ok
                /\ Len(dl_reads[j].path) = Len(RemoteRoot) + 3
    /\ \E f \in local_files : Len(f.path) = Len(LocalRoot) + 3
    /\ \E e \in RemoteFiles : ~Visible(e) /\ ~StartsWithDot(EntryName(e))

====
